---- MODULE Spec2Model ----
(***************************************************************************)
(* Model of the bottleneck classifier of the profiler (src/analyzer.py).   *)
(*                                                                         *)
(* Units.  The source works on floats; the model keeps exact integers:     *)
(*   seconds            -> milliseconds   (elapsed_s 0.06 is 60)           *)
(*   percentages        -> whole percents (backend_stall_pct 25.0 is 25)   *)
(*   ipc                -> hundredths     (ipc 1.5 is 150)                 *)
(*   bandwidth          -> MB/s                                            *)
(*   confidence         -> hundredths     (0.61 is 61)                     *)
(*   io_wait_frac       -> thousandths    (0.3 is 300)                     *)
(* A value that is unknown (Python None, JSON null) is None.               *)
(***************************************************************************)
EXTENDS Integers, Sequences, FiniteSets, TLC

VARIABLES
    input,  \* the JSON document given to main() on stdin or in a file
    data,   \* the document main() read from it
    cls,    \* what classify_result returned for it
    pc,     \* "read", "classified" (or "raised" when the call raised), "written"
    prev,   \* the document analysed before this one and its classification
    out     \* what main() wrote to stdout, and whether --augment was given

vars == <<input, data, cls, pc, prev, out>>

\* Python None / JSON null.  Every known number of a document is >= 0.
None == -1

Known(x) == x # None

\* Python truthiness of an optional number: None and 0 are falsy.
Truthy(x) == x # None /\ x # 0

\* `x or d` for an optional number x.
OrElse(x, d) == IF Truthy(x) THEN x ELSE d

\* The empty mapping {}.
EmptyMap == [k \in {} |-> None]

\* get(d, k): (d or {}).get(k)
Get(d, k) == IF k \in DOMAIN d THEN d[k] ELSE None

\* result.get(name, {})
Section(result, name) == IF name \in DOMAIN result THEN result[name] ELSE EmptyMap

Min(a, b) == IF a <= b THEN a ELSE b
Max(a, b) == IF a >= b THEN a ELSE b

\* round(n / d) to the nearest integer, ties to even, for n >= 0 and d > 0.
RoundDiv(n, d) ==
    LET q == n \div d
        r == n % d
    IN  IF 2 * r < d THEN q
        ELSE IF 2 * r > d THEN q + 1
        ELSE IF q % 2 = 0 THEN q ELSE q + 1

(***************************************************************************)
(* Thresholds of classify_performance.                                     *)
(***************************************************************************)
ShortElapsedMs == 100
LlcMissThreshold == 5
L1dMissThreshold == 10
DtlbMissThreshold == 1
LlcStrongThreshold == 30
BackendMemThreshold == 20
HighBandwidthMbps == 1000
BranchMissThreshold == 5
StallThreshold == 30
ComputeIpc == 150
LowStallThreshold == 20
HighIpc == 100
MediumIpc == 90
BusyCorePct == 85

StartupSyscalls ==
    {"execve", "mmap", "munmap", "mprotect", "brk", "access", "openat", "close", "fstat", "read"}

(***************************************************************************)
(* Exceptions.  A guarded block evaluates to [raised, val], val being the   *)
(* value its variables hold when the block ends, normally or by raising;   *)
(* the handler `except Exception: pass` goes on with that value.           *)
(***************************************************************************)
Raise(v) == [raised |-> TRUE, val |-> v]
Return(v) == [raised |-> FALSE, val |-> v]

\* No handler: the exception leaves the function.
ExceptPropagate(t) == t

\* try: ... except Exception: pass
ExceptPass(t) == Return(t.val)

\* sum(...) over a sequence of optional numbers: adding None raises TypeError.
RECURSIVE SumSeq(_)
SumSeq(s) == IF s = <<>> THEN 0 ELSE Head(s) + SumSeq(Tail(s))

SumOf(s) == IF \E i \in DOMAIN s : s[i] = None THEN Raise(None) ELSE Return(SumSeq(s))

\* r.get(field, default): the default only when the key is absent.
GetOr(r, field, default) == IF field \in DOMAIN r THEN r[field] ELSE default

\* [r.get(field, default) for r in rows if r.get("syscall") in names]
RECURSIVE FieldOfRows(_, _, _, _)
FieldOfRows(rows, names, field, default) ==
    IF rows = <<>> THEN <<>>
    ELSE IF Get(Head(rows), "syscall") \in names
         THEN <<GetOr(Head(rows), field, default)>> \o FieldOfRows(Tail(rows), names, field, default)
         ELSE FieldOfRows(Tail(rows), names, field, default)

\* (syscalls or {}).get("syscalls", [])
RowsOf(syscalls) == IF "syscalls" \in DOMAIN syscalls THEN syscalls["syscalls"] ELSE <<>>

\* total = (syscalls or {}).get("total"); total.get("seconds") if it is a dict
SyscallsTotalSeconds(syscalls) ==
    IF "total" \in DOMAIN syscalls THEN Get(syscalls["total"], "seconds") ELSE None

\* <<x>> when cond holds: a conditional append.
Opt(cond, x) == IF cond THEN <<x>> ELSE <<>>

(***************************************************************************)
(* Signals read from the six sections.                                     *)
(***************************************************************************)
\* elapsed = get(timing, "elapsed_s") or 0.0
Elapsed(timing) == OrElse(Get(timing, "elapsed_s"), 0)

\* wait_time = get(timing, "wait_time_s") or 0.0
WaitTime(timing) == OrElse(Get(timing, "wait_time_s"), 0)

\* Variant: the wait fraction compared with > instead of >=.
WaitFracHighStrict(timing) ==
    Elapsed(timing) # 0 /\ 5 * WaitTime(timing) > Elapsed(timing)

\* Variant: the wait fraction taken without looking at whether elapsed is set.
WaitFracHighUnguarded(timing) ==
    5 * WaitTime(timing) >= Elapsed(timing)

\* wait_frac >= 0.2, with wait_frac = wait_time / elapsed if elapsed else 0.0
WaitFracHigh(timing) ==
    Elapsed(timing) # 0 /\ 5 * WaitTime(timing) >= Elapsed(timing)

\* round(wait_frac, 3), in thousandths
IoWaitFrac(timing) ==
    IF Elapsed(timing) # 0 THEN RoundDiv(1000 * WaitTime(timing), Elapsed(timing)) ELSE 0

\* elapsed and syscalls_total_seconds and (syscalls_total_seconds / elapsed) >= 0.3
SyscallFracHigh(timing, syscalls) ==
    /\ Elapsed(timing) # 0
    /\ Truthy(SyscallsTotalSeconds(syscalls))
    /\ 10 * SyscallsTotalSeconds(syscalls) >= 3 * Elapsed(timing)

\* The guarded block that decides short_app.
ShortAppBody(syscalls) ==
    LET rows == RowsOf(syscalls)
        startup_time == SumOf(FieldOfRows(rows, StartupSyscalls, "seconds", 0))
        sts == SyscallsTotalSeconds(syscalls)
    IN  IF rows = <<>> THEN Return(FALSE)
        ELSE IF startup_time.raised THEN Raise(FALSE)
        ELSE Return(Truthy(sts) /\ 10 * startup_time.val > 7 * sts)

ShortApp(timing, syscalls) ==
    IF Elapsed(timing) # 0 /\ Elapsed(timing) < ShortElapsedMs
    THEN ExceptPass(ShortAppBody(syscalls))
    ELSE Return(FALSE)

IoCond(timing, syscalls) == WaitFracHigh(timing) \/ SyscallFracHigh(timing, syscalls)

LlcSignal(cache) ==
    Known(Get(cache, "llc_miss_rate_pct")) /\ Get(cache, "llc_miss_rate_pct") >= LlcMissThreshold

L1dSignal(cache) ==
    Known(Get(cache, "l1d_miss_rate_pct")) /\ Get(cache, "l1d_miss_rate_pct") >= L1dMissThreshold

DtlbSignal(memory) ==
    Known(Get(memory, "dtlb_miss_rate_pct")) /\ Get(memory, "dtlb_miss_rate_pct") >= DtlbMissThreshold

BackendSignal(cpu) ==
    Known(Get(cpu, "backend_stall_pct")) /\ Get(cpu, "backend_stall_pct") >= BackendMemThreshold

HighBw(memory) ==
    /\ Known(Get(memory, "ram_total_bandwidth_mbps"))
    /\ Get(memory, "ram_total_bandwidth_mbps") >= HighBandwidthMbps

Count(b) == IF b THEN 1 ELSE 0

MemMissSignals(cache, memory) ==
    Count(LlcSignal(cache)) + Count(L1dSignal(cache)) + Count(DtlbSignal(memory))

StrongMiss(cache, memory) ==
    \/ /\ Known(Get(cache, "llc_miss_rate_pct"))
       /\ Get(cache, "llc_miss_rate_pct") >= LlcStrongThreshold
    \/ MemMissSignals(cache, memory) >= 2

\* Variant: a known backend stall percentage is not consulted.
MemCondNoBackendGate(cpu, cache, memory) ==
    StrongMiss(cache, memory) \/ (HighBw(memory) /\ MemMissSignals(cache, memory) >= 1)

MemCond(cpu, cache, memory) ==
    IF Known(Get(cpu, "backend_stall_pct"))
    THEN MemMissSignals(cache, memory) >= 1 /\ Get(cpu, "backend_stall_pct") >= BackendMemThreshold
    ELSE StrongMiss(cache, memory) \/ (HighBw(memory) /\ MemMissSignals(cache, memory) >= 1)

BranchCond(cpu) ==
    Known(Get(cpu, "branch_miss_rate_pct")) /\ Get(cpu, "branch_miss_rate_pct") >= BranchMissThreshold

FrontendCond(cpu) ==
    Known(Get(cpu, "frontend_stall_pct")) /\ Get(cpu, "frontend_stall_pct") >= StallThreshold

BackendCond(cpu) ==
    Known(Get(cpu, "backend_stall_pct")) /\ Get(cpu, "backend_stall_pct") >= StallThreshold

CpuComputeCond(cpu, cache) ==
    /\ Known(Get(cpu, "ipc")) /\ Get(cpu, "ipc") >= ComputeIpc
    /\ (~Known(Get(cpu, "frontend_stall_pct")) \/ Get(cpu, "frontend_stall_pct") < LowStallThreshold)
    /\ (~Known(Get(cpu, "backend_stall_pct")) \/ Get(cpu, "backend_stall_pct") < LowStallThreshold)
    /\ (~Known(Get(cache, "l1d_miss_rate_pct")) \/ Get(cache, "l1d_miss_rate_pct") < L1dMissThreshold)
    /\ (~Known(Get(cache, "llc_miss_rate_pct")) \/ Get(cache, "llc_miss_rate_pct") < LlcMissThreshold)

(***************************************************************************)
(* Primary bottleneck selection: the cascade of classify_performance.      *)
(***************************************************************************)
\* Variant: the memory test placed ahead of the I/O test.
RuleMemoryBeforeIo(short_app, timing, cpu, cache, memory, syscalls) ==
    IF short_app THEN "short"
    ELSE IF MemCond(cpu, cache, memory) THEN "memory"
    ELSE IF IoCond(timing, syscalls) THEN "io"
    ELSE IF BranchCond(cpu) THEN "branch"
    ELSE IF FrontendCond(cpu) \/ BackendCond(cpu) THEN "stall"
    ELSE IF CpuComputeCond(cpu, cache) THEN "compute"
    ELSE "default"

\* Variant: the I/O test placed ahead of the short-lived test.
RuleIoBeforeShort(short_app, timing, cpu, cache, memory, syscalls) ==
    IF IoCond(timing, syscalls) THEN "io"
    ELSE IF short_app THEN "short"
    ELSE IF MemCond(cpu, cache, memory) THEN "memory"
    ELSE IF BranchCond(cpu) THEN "branch"
    ELSE IF FrontendCond(cpu) \/ BackendCond(cpu) THEN "stall"
    ELSE IF CpuComputeCond(cpu, cache) THEN "compute"
    ELSE "default"

\* The branch of the if/elif chain that is taken.
Rule(short_app, timing, cpu, cache, memory, syscalls) ==
    IF short_app THEN "short"
    ELSE IF IoCond(timing, syscalls) THEN "io"
    ELSE IF MemCond(cpu, cache, memory) THEN "memory"
    ELSE IF BranchCond(cpu) THEN "branch"
    ELSE IF FrontendCond(cpu) \/ BackendCond(cpu) THEN "stall"
    ELSE IF CpuComputeCond(cpu, cache) THEN "compute"
    ELSE "default"

\* Variant: the memory branch sets the label of the I/O branch.
PrimaryBottleneckMemoryAsIo(rule) ==
    CASE rule = "short" -> "No bottleneck"
      [] rule = "io" -> "I/O/Wait"
      [] rule = "memory" -> "I/O/Wait"
      [] OTHER -> "CPU"

PrimaryBottleneck(rule) ==
    CASE rule = "short" -> "No bottleneck"
      [] rule = "io" -> "I/O/Wait"
      [] rule = "memory" -> "Memory"
      [] OTHER -> "CPU"

\* The reason the taken branch appends.
FirstReason(rule, timing, cpu, cache, memory, syscalls) ==
    CASE rule = "short" ->
            [elapsed_s |-> Elapsed(timing), note |-> "short_lived"]
      [] rule = "io" ->
            [io_wait_frac |-> IoWaitFrac(timing),
             syscalls_total_seconds |-> SyscallsTotalSeconds(syscalls)]
      [] rule = "memory" ->
            [llc_miss_rate_pct |-> Get(cache, "llc_miss_rate_pct"),
             l1d_miss_rate_pct |-> Get(cache, "l1d_miss_rate_pct"),
             dtlb_miss_rate_pct |-> Get(memory, "dtlb_miss_rate_pct"),
             backend_stall_pct |-> Get(cpu, "backend_stall_pct"),
             ram_total_bandwidth_mbps |-> Get(memory, "ram_total_bandwidth_mbps")]
      [] rule = "branch" ->
            [branch_miss_rate_pct |-> Get(cpu, "branch_miss_rate_pct")]
      [] rule = "stall" ->
            [frontend_stall_pct |-> Get(cpu, "frontend_stall_pct"),
             backend_stall_pct |-> Get(cpu, "backend_stall_pct")]
      [] rule = "compute" ->
            [ipc |-> Get(cpu, "ipc")]
      [] OTHER ->
            [ipc |-> Get(cpu, "ipc"),
             frontend_stall_pct |-> Get(cpu, "frontend_stall_pct"),
             backend_stall_pct |-> Get(cpu, "backend_stall_pct"),
             branch_miss_rate_pct |-> Get(cpu, "branch_miss_rate_pct")]

(***************************************************************************)
(* Parallel potential heuristic.                                           *)
(***************************************************************************)
\* threads = get(concurrency, "threads") or 1
Threads(concurrency) == OrElse(Get(concurrency, "threads"), 1)

\* cpu_util_per_core = get(timing, "cpu_utilization_per_core_pct") or 0.0
CpuUtilPerCore(timing) == OrElse(Get(timing, "cpu_utilization_per_core_pct"), 0)

\* (ipc or 0)
IpcOrZero(cpu) == OrElse(Get(cpu, "ipc"), 0)

\* Variant: the thread count is not consulted for "high".
ParallelPotentialAnyThreads(primary, timing, cpu, concurrency, syscalls) ==
    IF primary = "No bottleneck" THEN "n/a"
    ELSE IF primary = "Memory" \/ IoCond(timing, syscalls) THEN "low"
    ELSE IF primary = "CPU" /\ IpcOrZero(cpu) >= HighIpc THEN "high"
    ELSE IF primary = "CPU" /\ IpcOrZero(cpu) >= MediumIpc /\ CpuUtilPerCore(timing) < BusyCorePct
         THEN "medium"
    ELSE "low"

ParallelPotential(primary, timing, cpu, concurrency, syscalls) ==
    IF primary = "No bottleneck" THEN "n/a"
    ELSE IF primary = "Memory" \/ IoCond(timing, syscalls) THEN "low"
    ELSE IF primary = "CPU" /\ Threads(concurrency) <= 1 /\ IpcOrZero(cpu) >= HighIpc THEN "high"
    ELSE IF primary = "CPU" /\ IpcOrZero(cpu) >= MediumIpc /\ CpuUtilPerCore(timing) < BusyCorePct
         THEN "medium"
    ELSE "low"

(***************************************************************************)
(* Confidence score, in thousandths before the final rounding.             *)
(***************************************************************************)
MemoryScore(cpu, cache, memory) ==
    Count(LlcSignal(cache)) + Count(L1dSignal(cache)) + Count(DtlbSignal(memory))
        + Count(BackendSignal(cpu)) + Count(HighBw(memory))

IoScore(timing, syscalls) ==
    Count(WaitFracHigh(timing)) + Count(SyscallFracHigh(timing, syscalls))

IpcFavorable(cpu) == Known(Get(cpu, "ipc")) /\ Get(cpu, "ipc") >= ComputeIpc

FrontendFavorable(cpu) ==
    Known(Get(cpu, "frontend_stall_pct")) /\ Get(cpu, "frontend_stall_pct") < LowStallThreshold

BackendFavorable(cpu) ==
    Known(Get(cpu, "backend_stall_pct")) /\ Get(cpu, "backend_stall_pct") < LowStallThreshold

L1dFavorable(cache) ==
    Known(Get(cache, "l1d_miss_rate_pct")) /\ Get(cache, "l1d_miss_rate_pct") < L1dMissThreshold

LlcFavorable(cache) ==
    Known(Get(cache, "llc_miss_rate_pct")) /\ Get(cache, "llc_miss_rate_pct") < LlcMissThreshold

\* Variant: the "is not None" guards dropped, so an unknown stall or miss rate
\* compares as below its threshold.
CpuScoreUnknownFavorable(cpu, cache) ==
    Count(IpcFavorable(cpu))
        + Count(Get(cpu, "frontend_stall_pct") < LowStallThreshold)
        + Count(Get(cpu, "backend_stall_pct") < LowStallThreshold)
        + Count(Get(cache, "l1d_miss_rate_pct") < L1dMissThreshold)
        + Count(Get(cache, "llc_miss_rate_pct") < LlcMissThreshold)

CpuScore(cpu, cache) ==
    Count(IpcFavorable(cpu)) + Count(FrontendFavorable(cpu)) + Count(BackendFavorable(cpu))
        + Count(L1dFavorable(cache)) + Count(LlcFavorable(cache))

\* Variant: the score not capped at four signals.
MemoryConfidenceUncapped(score) == 350 + 130 * score

MemoryConfidence(score) == 350 + 130 * Min(score, 4)

\* Variant: each signal lowers the confidence.
IoConfidenceDecreasing(score) == 400 - 300 * score

IoConfidence(score) == 400 + 300 * score

CpuConfidence(score) == 300 + 150 * score

RawConfidence(primary, timing, cpu, cache, memory, syscalls) ==
    IF primary = "No bottleneck" THEN 900
    ELSE IF primary = "Memory" THEN MemoryConfidence(MemoryScore(cpu, cache, memory))
    ELSE IF primary = "I/O/Wait" THEN IoConfidence(IoScore(timing, syscalls))
    ELSE CpuConfidence(CpuScore(cpu, cache))

\* Variant: rounding without the clamp to [0, 1].
FinalConfidenceUnclamped(raw) == RoundDiv(raw, 10)

\* round(min(max(confidence, 0.0), 1.0), 2), in hundredths
FinalConfidence(raw) == RoundDiv(Min(Max(raw, 0), 1000), 10)

(***************************************************************************)
(* Enriched reasons: the top three syscalls by time for an I/O verdict.    *)
(***************************************************************************)
\* Where r goes in a list sorted by seconds, largest first: after every row
\* whose seconds are >= its own (sorted(..., reverse=True) is stable).
RECURSIVE InsertDesc(_, _)
InsertDesc(sorted, r) ==
    IF sorted = <<>> THEN <<r>>
    ELSE IF GetOr(Head(sorted), "seconds", 0) >= GetOr(r, "seconds", 0)
         THEN <<Head(sorted)>> \o InsertDesc(Tail(sorted), r)
         ELSE <<r>> \o sorted

RECURSIVE SortedBySeconds(_)
SortedBySeconds(rows) ==
    IF rows = <<>> THEN <<>>
    ELSE InsertDesc(SortedBySeconds(SubSeq(rows, 1, Len(rows) - 1)), rows[Len(rows)])

\* Comparing None with a number, or with None, raises TypeError.
SortRaises(rows) ==
    Len(rows) >= 2 /\ \E i \in DOMAIN rows : GetOr(rows[i], "seconds", 0) = None

TopEntry(r) ==
    [syscall |-> Get(r, "syscall"), seconds |-> Get(r, "seconds"), pct_time |-> Get(r, "pct_time")]

\* The first three rows as they stand, not sorted
TopThreeAsGiven(rows) ==
    LET top == SubSeq(rows, 1, Min(3, Len(rows)))
    IN  [i \in 1..Len(top) |-> TopEntry(top[i])]

TopThree(rows) ==
    LET top == SubSeq(SortedBySeconds(rows), 1, Min(3, Len(rows)))
    IN  [i \in 1..Len(top) |-> TopEntry(top[i])]

\* The guarded block after the confidence score; val is what it appends to reasons.
EnrichBody(primary, syscalls) ==
    LET rows == RowsOf(syscalls)
    IN  IF primary = "I/O/Wait" /\ rows # <<>>
        THEN IF SortRaises(rows) THEN Raise(<<>>)
             ELSE Return(<<[top_syscalls_by_time |-> TopThree(rows)]>>)
        ELSE Return(<<>>)

EnrichReasons(primary, syscalls) == ExceptPass(EnrichBody(primary, syscalls))

(***************************************************************************)
(* Suggestions, each named by a tag.                                       *)
(***************************************************************************)
\* The guarded block of the output-redirection caveat; val is what it appends.
\* Variant: the verdict is not consulted.
CaveatBodyAnyVerdict(primary, timing, syscalls) ==
    LET rows == RowsOf(syscalls)
        write_calls == SumOf(FieldOfRows(rows, {"write"}, "calls", 0))
        total_syscall_time == OrElse(SyscallsTotalSeconds(syscalls), 0)
    IN  IF write_calls.raised THEN Raise(<<>>)
        ELSE Return(Opt(/\ write_calls.val > 0
                        /\ Elapsed(timing) > 0
                        /\ 10 * total_syscall_time < Elapsed(timing)
                        /\ write_calls.val > 100,
                        "redirect_caveat"))

CaveatBody(primary, timing, syscalls) ==
    LET rows == RowsOf(syscalls)
        write_calls == SumOf(FieldOfRows(rows, {"write"}, "calls", 0))
        total_syscall_time == OrElse(SyscallsTotalSeconds(syscalls), 0)
    IN  IF write_calls.raised THEN Raise(<<>>)
        ELSE Return(Opt(/\ primary = "CPU"
                        /\ write_calls.val > 0
                        /\ Elapsed(timing) > 0
                        /\ 10 * total_syscall_time < Elapsed(timing)
                        /\ write_calls.val > 100,
                        "redirect_caveat"))

Caveat(primary, timing, syscalls) == ExceptPass(CaveatBody(primary, timing, syscalls))

\* The guarded loop looking for a write row with pct_time > 90.
RECURSIVE WriteHeavyBody(_)
WriteHeavyBody(rows) ==
    IF rows = <<>> THEN Return([write_heavy |-> FALSE, said |-> <<>>])
    ELSE LET r == Head(rows)
             pct == GetOr(r, "pct_time", 0)
             calls == GetOr(r, "calls", 0)
         IN  IF Get(r, "syscall") # "write" THEN WriteHeavyBody(Tail(rows))
             ELSE IF pct = None THEN Raise([write_heavy |-> FALSE, said |-> <<>>])
             ELSE IF pct <= 90 THEN WriteHeavyBody(Tail(rows))
             ELSE IF calls = None THEN Raise([write_heavy |-> TRUE, said |-> <<>>])
             ELSE Return([write_heavy |-> TRUE, said |-> Opt(calls > 10000, "write_buffering")])

WriteHeavy(syscalls) == ExceptPass(WriteHeavyBody(RowsOf(syscalls)))

\* ctx_switches = get(concurrency, "context_switches") or 0
ContextSwitches(concurrency) == OrElse(Get(concurrency, "context_switches"), 0)

IoSuggestions(timing, concurrency, write_heavy) ==
    write_heavy.said
        \o Opt(~write_heavy.write_heavy, "io_generic")
        \o Opt(Elapsed(timing) # 0 /\ 10 * ContextSwitches(concurrency) > Elapsed(timing),
               "context_switches")

MemorySuggestions(cache, memory) ==
    LET llc == Get(cache, "llc_miss_rate_pct")
        l1d == Get(cache, "l1d_miss_rate_pct")
        dtlb == Get(memory, "dtlb_miss_rate_pct")
        bw == Get(memory, "ram_total_bandwidth_mbps")
    IN  (IF Known(llc) /\ llc >= 30 THEN <<"llc_very_high">>
         ELSE IF Known(llc) /\ llc >= 10 THEN <<"llc_high">> ELSE <<>>)
        \o Opt(Known(l1d) /\ l1d >= 15, "l1d_high")
        \o Opt(Known(dtlb) /\ dtlb >= 2, "tlb_high")
        \o Opt(Known(bw) /\ bw >= 5000, "ram_bandwidth_high")

CpuSuggestions(cpu, concurrency) ==
    LET ipc == Get(cpu, "ipc")
        fe == Get(cpu, "frontend_stall_pct")
        be == Get(cpu, "backend_stall_pct")
        br == Get(cpu, "branch_miss_rate_pct")
    IN  Opt(Known(ipc) /\ ipc < 100, "low_ipc")
        \o Opt(Known(fe) /\ fe >= 30, "frontend_stalls")
        \o Opt(Known(be) /\ be >= 30, "backend_stalls")
        \o Opt(Known(br) /\ br >= 5, "branch_misses")
        \o Opt(Known(ipc) /\ ipc >= 150 /\ Threads(concurrency) = 1, "parallelize")
        \o Opt(Known(ipc) /\ ipc >= 100 /\ ipc < 200, "vectorize")

\* The suggestions after the caveat block, by verdict.
VerdictSuggestions(primary, timing, cpu, cache, memory, concurrency, write_heavy) ==
    IF primary = "I/O/Wait" THEN IoSuggestions(timing, concurrency, write_heavy)
    ELSE IF primary = "Memory" THEN MemorySuggestions(cache, memory)
    ELSE IF primary = "CPU" THEN CpuSuggestions(cpu, concurrency)
    ELSE <<>>

(***************************************************************************)
(* classify_performance and classify_result.                               *)
(***************************************************************************)
ClassifyPerformance(timing, cpu, cache, memory, concurrency, syscalls) ==
    LET short_app == ShortApp(timing, syscalls)
        rule == Rule(short_app.val, timing, cpu, cache, memory, syscalls)
        primary == PrimaryBottleneck(rule)
        enriched == EnrichReasons(primary, syscalls)
        caveat == Caveat(primary, timing, syscalls)
        write_heavy == IF primary = "I/O/Wait" THEN WriteHeavy(syscalls)
                       ELSE Return([write_heavy |-> FALSE, said |-> <<>>])
    IN  [raised |-> short_app.raised \/ enriched.raised \/ caveat.raised \/ write_heavy.raised,
         primary_bottleneck |-> primary,
         parallel_potential |-> ParallelPotential(primary, timing, cpu, concurrency, syscalls),
         confidence |-> FinalConfidence(RawConfidence(primary, timing, cpu, cache, memory, syscalls)),
         reasons |-> <<FirstReason(rule, timing, cpu, cache, memory, syscalls)>> \o enriched.val,
         suggestions |-> Opt(primary = "No bottleneck", "short_lived")
                            \o caveat.val
                            \o VerdictSuggestions(primary, timing, cpu, cache, memory,
                                                  concurrency, write_heavy.val)]

ClassifyResult(result) ==
    ClassifyPerformance(Section(result, "timing"), Section(result, "cpu"),
                        Section(result, "cache"), Section(result, "memory"),
                        Section(result, "concurrency"), Section(result, "syscalls"))

(***************************************************************************)
(* Input documents: every document that differs from one of the reference  *)
(* documents in at most MaxChanged fields.                                 *)
(***************************************************************************)
\* The number of fields in which an input document differs from a reference document.
MaxChanged == 2

\* The longest syscall table of an input document.
MaxRows == 2

\* Rows of a syscall summary, in the order run_strace_summary leaves them.
StraceRows ==
    << [syscall |-> "execve", calls |-> 1, errors |-> 0, seconds |-> 14, pct_time |-> 58],
       [syscall |-> "futex", calls |-> 3, errors |-> 0, seconds |-> 6, pct_time |-> 25],
       [syscall |-> "write", calls |-> 200, errors |-> 0, seconds |-> 4, pct_time |-> 17] >>

\* The rows of `rows` at the positions in `keep`, from position i on, in order.
RECURSIVE Select(_, _, _)
Select(rows, keep, i) ==
    IF i > Len(rows) THEN <<>>
    ELSE IF i \in keep THEN <<rows[i]>> \o Select(rows, keep, i + 1)
    ELSE Select(rows, keep, i + 1)

RowNames(rows) == {rows[i].syscall : i \in DOMAIN rows}

\* What run_strace_summary returns: the rows with their total, or the raw text.
SyscallTable(rows) ==
    IF rows = <<>> THEN [raw |-> "strace"]
    ELSE [syscalls |-> rows,
          total |-> [seconds |-> SumSeq(FieldOfRows(rows, RowNames(rows), "seconds", 0))]]

SyscallDocs ==
    { SyscallTable(Select(StraceRows, keep, 1)) :
        keep \in { k \in SUBSET (1..Len(StraceRows)) : Cardinality(k) <= MaxRows } }

\* The fields of a document; the syscalls section counts as one field.
Fields ==
    { <<"timing", "elapsed_s">>, <<"timing", "wait_time_s">>,
      <<"timing", "cpu_utilization_per_core_pct">>,
      <<"cpu", "ipc">>, <<"cpu", "branch_miss_rate_pct">>,
      <<"cpu", "frontend_stall_pct">>, <<"cpu", "backend_stall_pct">>,
      <<"cache", "l1d_miss_rate_pct">>, <<"cache", "llc_miss_rate_pct">>,
      <<"memory", "dtlb_miss_rate_pct">>, <<"memory", "ram_total_bandwidth_mbps">>,
      <<"concurrency", "threads">>, <<"syscalls", "*">> }

\* The values a field takes: unknown, and values on each side of every threshold.
Vals(f) ==
    CASE f = <<"timing", "elapsed_s">> -> {None, 0, 60, 10000}
      [] f = <<"timing", "wait_time_s">> -> {None, 10, 2000, 3000}
      [] f = <<"timing", "cpu_utilization_per_core_pct">> -> {None, 50, 90}
      [] f = <<"cpu", "ipc">> -> {None, 50, 90, 100, 150, 180}
      [] f = <<"cpu", "branch_miss_rate_pct">> -> {None, 2, 5}
      [] f = <<"cpu", "frontend_stall_pct">> -> {None, 5, 20, 30}
      [] f = <<"cpu", "backend_stall_pct">> -> {None, 5, 20, 25, 30}
      [] f = <<"cache", "l1d_miss_rate_pct">> -> {None, 2, 10}
      [] f = <<"cache", "llc_miss_rate_pct">> -> {None, 1, 5, 8, 30}
      [] f = <<"memory", "dtlb_miss_rate_pct">> -> {None, 0, 1}
      [] f = <<"memory", "ram_total_bandwidth_mbps">> -> {None, 500, 1000}
      [] f = <<"concurrency", "threads">> -> {None, 1, 4}
      [] f = <<"syscalls", "*">> -> SyscallDocs

\* The value of field f in document d.
FieldValue(d, f) == IF f[2] = "*" THEN d[f[1]] ELSE d[f[1]][f[2]]

\* The document d with field f set to v.
SetField(d, f, v) ==
    IF f[2] = "*" THEN [d EXCEPT ![f[1]] = v] ELSE [d EXCEPT ![f[1]][f[2]] = v]

\* Every field unknown: what the profiler writes when no tool produced anything.
AllUnknown ==
    [timing |-> [elapsed_s |-> None, wait_time_s |-> None, cpu_utilization_per_core_pct |-> None],
     cpu |-> [ipc |-> None, branch_miss_rate_pct |-> None,
              frontend_stall_pct |-> None, backend_stall_pct |-> None],
     cache |-> [l1d_miss_rate_pct |-> None, llc_miss_rate_pct |-> None],
     memory |-> [dtlb_miss_rate_pct |-> None, ram_total_bandwidth_mbps |-> None],
     concurrency |-> [threads |-> None, context_switches |-> None],
     syscalls |-> [raw |-> "strace"]]

\* A short run whose syscall time is dominated by execve.
ShortLived ==
    [AllUnknown EXCEPT !["timing"]["elapsed_s"] = 60,
                       !["syscalls"] = SyscallTable(Select(StraceRows, {1}, 1))]

\* Three seconds of waiting in ten.
Waiting ==
    [AllUnknown EXCEPT !["timing"]["elapsed_s"] = 10000, !["timing"]["wait_time_s"] = 3000]

\* Backend stalls with last-level-cache misses.
MemoryBound ==
    [AllUnknown EXCEPT !["cpu"]["backend_stall_pct"] = 25, !["cache"]["llc_miss_rate_pct"] = 8]

\* Every memory signal present.
MemorySaturated ==
    [AllUnknown EXCEPT !["cpu"]["backend_stall_pct"] = 30,
                       !["cache"]["llc_miss_rate_pct"] = 30,
                       !["cache"]["l1d_miss_rate_pct"] = 10,
                       !["memory"]["dtlb_miss_rate_pct"] = 1,
                       !["memory"]["ram_total_bandwidth_mbps"] = 1000]

\* High ipc, low stalls, low miss rates, one thread.
ComputeBound ==
    [AllUnknown EXCEPT !["cpu"]["ipc"] = 180,
                       !["cpu"]["frontend_stall_pct"] = 5,
                       !["cpu"]["backend_stall_pct"] = 5,
                       !["cache"]["l1d_miss_rate_pct"] = 2,
                       !["cache"]["llc_miss_rate_pct"] = 1,
                       !["concurrency"]["threads"] = 1]

\* Mispredicted branches on a busy multi-threaded run.
Mispredicting ==
    [AllUnknown EXCEPT !["cpu"]["branch_miss_rate_pct"] = 5,
                       !["cpu"]["ipc"] = 90,
                       !["timing"]["cpu_utilization_per_core_pct"] = 50,
                       !["concurrency"]["threads"] = 4]

\* Frontend stalls with a low ipc.
Stalled ==
    [AllUnknown EXCEPT !["cpu"]["frontend_stall_pct"] = 30,
                       !["cpu"]["ipc"] = 50,
                       !["timing"]["cpu_utilization_per_core_pct"] = 90,
                       !["concurrency"]["threads"] = 4]

ReferenceDocs ==
    {AllUnknown, ShortLived, Waiting, MemoryBound, MemorySaturated, ComputeBound,
     Mispredicting, Stalled}

\* The documents within k changed fields of the documents of `docs`.
RECURSIVE Around(_, _)
Around(docs, k) ==
    IF k = 0 THEN docs
    ELSE LET near == Around(docs, k - 1)
         IN  near \cup { SetField(d, f[1], f[2]) :
                           d \in near, f \in UNION { {<<g, v>> : v \in Vals(g)} : g \in Fields } }

Documents == Around(ReferenceDocs, MaxChanged)

\* No classification yet.
NoCls == EmptyMap

\* What the caller holds after the call: the five keys, or nothing when it raised.
Returned(r) ==
    IF r.raised THEN NoCls
    ELSE [primary_bottleneck |-> r.primary_bottleneck,
          parallel_potential |-> r.parallel_potential,
          confidence |-> r.confidence,
          reasons |-> r.reasons,
          suggestions |-> r.suggestions]

\* No document was analysed before this one.
NoPrev == EmptyMap

\* Nothing was written yet.
NoOut == [augment |-> FALSE, json |-> EmptyMap]

\* d[k] = v on a Python dict: the key is added, or its value replaced.
Put(d, k, v) == [n \in DOMAIN d \cup {k} |-> IF n = k THEN v ELSE d[n]]

\* Variant: the classification alone under its key, the document dropped.
AugmentDroppingDocument(d, c) == [performance_classification |-> c]

\* data["performance_classification"] = cls
Augment(d, c) == Put(d, "performance_classification", c)

(***************************************************************************)
(* main() of the analyzer: read the document, classify it.                 *)
(***************************************************************************)
Init ==
    /\ input \in Documents
    /\ data = input
    /\ cls = NoCls
    /\ pc = "read"
    /\ prev = NoPrev
    /\ out = NoOut

\* cls = classify_result(data)
Classify ==
    /\ pc = "read"
    /\ cls' = Returned(ClassifyResult(data))
    /\ pc' = IF cls' = NoCls THEN "raised" ELSE "classified"
    /\ UNCHANGED <<input, data, prev, out>>

\* if args.augment: data["performance_classification"] = cls; json.dump(data, ...)
\* else: json.dump(cls, ...)
Emit ==
    /\ pc = "classified"
    /\ \E augment \in BOOLEAN :
          /\ data' = IF augment THEN Augment(data, cls) ELSE data
          /\ out' = [augment |-> augment, json |-> IF augment THEN data' ELSE cls]
    /\ pc' = "written"
    /\ UNCHANGED <<input, cls, prev>>

Next == Classify \/ Emit

Spec == Init /\ [][Next]_vars

(***************************************************************************)
(* The analyzer run again on a document that differs from the last one in  *)
(* one field: classify_performance keeps no state between two calls.       *)
(***************************************************************************)
\* The number of fields in which the first document differs from a reference document.
MaxPairChanged == 1

PairReferenceDocs == {ShortLived, Waiting, MemoryBound, ComputeBound}

PairDocuments == Around(PairReferenceDocs, MaxPairChanged)

InitPair ==
    /\ input \in PairDocuments
    /\ data = input
    /\ cls = NoCls
    /\ pc = "read"
    /\ prev = NoPrev
    /\ out = NoOut

\* main() on the next document
Reclassify ==
    /\ pc = "classified"
    /\ prev = NoPrev
    /\ \E f \in Fields :
          \E v \in Vals(f) \ {FieldValue(data, f)} :
             \E next \in {SetField(data, f, v)} :
                /\ input' = next
                /\ data' = next
                /\ cls' = Returned(ClassifyResult(next))
    /\ pc' = IF cls' = NoCls THEN "raised" ELSE "classified"
    /\ prev' = [data |-> data, cls |-> cls]
    /\ UNCHANGED out

NextPair == Classify \/ Reclassify \/ Emit

SpecPair == InitPair /\ [][NextPair]_vars

(***************************************************************************)
(* Documents with one section fully unknown: all its fields unknown, an    *)
(* empty mapping, the section absent, and for syscalls the raw-text        *)
(* fallback or rows whose numeric fields are unknown.                      *)
(***************************************************************************)
\* The number of fields in which the document differs from a reference document
\* before one of its sections is made unknown.
MaxRobustChanged == 1

SectionNames == {"timing", "cpu", "cache", "memory", "concurrency", "syscalls"}

\* A write-dominated table.
RobustRows ==
    << [syscall |-> "write", calls |-> 20000, errors |-> 0, seconds |-> 30, pct_time |-> 95],
       [syscall |-> "read", calls |-> 5, errors |-> 0, seconds |-> 2, pct_time |-> 5] >>

\* The row r with the fields of `unknown` set to null.
Masked(r, unknown) == [k \in DOMAIN r |-> IF k \in unknown THEN None ELSE r[k]]

UnknownKinds(name) ==
    [kind : {"unknown", "empty", "absent"}, unknown : {{}}]
        \cup IF name = "syscalls"
             THEN [kind : {"raw"}, unknown : {{}}]
                      \cup [kind : {"rows"},
                            unknown : SUBSET {"seconds", "calls", "pct_time"} \ {{}}]
             ELSE {}

\* The document d with section `name` made unknown in the given way.
WithUnknownSection(d, name, how) ==
    CASE how.kind = "absent" -> [n \in DOMAIN d \ {name} |-> d[n]]
      [] how.kind = "empty" -> [d EXCEPT ![name] = EmptyMap]
      [] how.kind = "raw" -> [d EXCEPT ![name] = [raw |-> "strace"]]
      [] how.kind = "rows" ->
            [d EXCEPT ![name] =
                [syscalls |-> [i \in DOMAIN RobustRows |-> Masked(RobustRows[i], how.unknown)],
                 total |-> [seconds |-> IF "seconds" \in how.unknown THEN None ELSE 32]]]
      [] how.kind = "unknown" /\ name = "syscalls" ->
            [d EXCEPT ![name] = [syscalls |-> <<>>, total |-> EmptyMap]]
      [] OTHER -> [d EXCEPT ![name] = [k \in DOMAIN AllUnknown[name] |-> None]]

RobustDocuments ==
    { WithUnknownSection(d, c[1], c[2]) :
        d \in Around(ReferenceDocs, MaxRobustChanged),
        c \in UNION { {<<name, how>> : how \in UnknownKinds(name)} : name \in SectionNames } }

InitRobust ==
    /\ input \in RobustDocuments
    /\ data = input
    /\ cls = NoCls
    /\ pc = "read"
    /\ prev = NoPrev
    /\ out = NoOut

SpecRobust == InitRobust /\ [][Next]_vars

(***************************************************************************)
(* Documents that already hold a performance_classification key: the       *)
(* output of an earlier --augment run, given to main() again.              *)
(***************************************************************************)
\* The number of fields in which the document differs from a reference document.
MaxAugmentChanged == 1

\* Classifications left in a document by an earlier run.
StaleClassifications == {Returned(ClassifyResult(d)) : d \in {ShortLived, ComputeBound}}

AugmentDocuments ==
    LET docs == Around(ReferenceDocs, MaxAugmentChanged)
    IN  docs \cup {Augment(d, c) : d \in docs, c \in StaleClassifications}

InitAugment ==
    /\ input \in AugmentDocuments
    /\ data = input
    /\ cls = NoCls
    /\ pc = "read"
    /\ prev = NoPrev
    /\ out = NoOut

SpecAugment == InitAugment /\ [][Next]_vars

(***************************************************************************)
(* Reading the document and the verdict in the properties below.           *)
(***************************************************************************)
Field(section, key) == Get(Section(data, section), key)

Classified == pc = "classified"

Verdict == cls.primary_bottleneck

ElapsedMs == Field("timing", "elapsed_s")
WaitMs == Field("timing", "wait_time_s")
TotalSyscallMs == SyscallsTotalSeconds(Section(data, "syscalls"))
SyscallRows == RowsOf(Section(data, "syscalls"))

\* The seconds spent in the startup syscall set, when every such row has known seconds.
StartupMs == SumSeq(FieldOfRows(SyscallRows, StartupSyscalls, "seconds", 0))

StartupKnown == \A i \in DOMAIN SyscallRows : SyscallRows[i].seconds # None

\* More than 70% of the total syscall time is spent in the startup set.
StartupDominated ==
    /\ SyscallRows # <<>>
    /\ StartupKnown
    /\ TotalSyscallMs # None /\ TotalSyscallMs > 0
    /\ 10 * StartupMs > 7 * TotalSyscallMs

\* wait_time_s / elapsed_s >= 0.2
WaitFractionHigh ==
    ElapsedMs # None /\ ElapsedMs > 0 /\ WaitMs # None /\ 5 * WaitMs >= ElapsedMs

\* total syscall seconds / elapsed_s >= 0.3
SyscallFractionHigh ==
    /\ ElapsedMs # None /\ ElapsedMs > 0
    /\ TotalSyscallMs # None /\ 10 * TotalSyscallMs >= 3 * ElapsedMs

AtLeast(section, key, threshold) ==
    Field(section, key) # None /\ Field(section, key) >= threshold

Below(section, key, threshold) ==
    Field(section, key) # None /\ Field(section, key) < threshold

LlcHigh == AtLeast("cache", "llc_miss_rate_pct", 5)
L1dHigh == AtLeast("cache", "l1d_miss_rate_pct", 10)
DtlbHigh == AtLeast("memory", "dtlb_miss_rate_pct", 1)
BackendHigh == AtLeast("cpu", "backend_stall_pct", 20)
BandwidthHigh == AtLeast("memory", "ram_total_bandwidth_mbps", 1000)

MissSignalCount == Cardinality({n \in {"llc", "l1d", "dtlb"} :
                                   \/ n = "llc" /\ LlcHigh
                                   \/ n = "l1d" /\ L1dHigh
                                   \/ n = "dtlb" /\ DtlbHigh})

(***************************************************************************)
(* C1. For every input document classify_result returns a Classification   *)
(* whose primary_bottleneck is one of CPU, Memory, I/O/Wait, No bottleneck,*)
(* whose parallel_potential is one of high, medium, low, n/a, and whose    *)
(* confidence lies in [0,1] (0..100 hundredths).                           *)
(***************************************************************************)
C1_WellFormedVerdict ==
    /\ pc # "raised"
    /\ Classified =>
        /\ cls.primary_bottleneck \in {"CPU", "Memory", "I/O/Wait", "No bottleneck"}
        /\ cls.parallel_potential \in {"high", "medium", "low", "n/a"}
        /\ cls.confidence \in 0..100

\* A CPU verdict with all five favorable signals: 0.3 + 5 * 0.15 is clamped to 1.0.
C1_Witness ==
    /\ Classified /\ Verdict = "CPU" /\ cls.confidence = 100
    /\ AtLeast("cpu", "ipc", 150)
    /\ Below("cpu", "frontend_stall_pct", 20) /\ Below("cpu", "backend_stall_pct", 20)
    /\ Below("cache", "l1d_miss_rate_pct", 10) /\ Below("cache", "llc_miss_rate_pct", 5)

(***************************************************************************)
(* The conditions of the seven rules, as the specification words them.     *)
(***************************************************************************)
ShortHolds ==
    ElapsedMs # None /\ ElapsedMs > 0 /\ ElapsedMs < 100 /\ StartupDominated

IoHolds == WaitFractionHigh \/ SyscallFractionHigh

MemHolds ==
    IF Field("cpu", "backend_stall_pct") # None
    THEN BackendHigh /\ MissSignalCount >= 1
    ELSE \/ AtLeast("cache", "llc_miss_rate_pct", 30)
         \/ MissSignalCount >= 2
         \/ BandwidthHigh /\ MissSignalCount >= 1

BranchHolds == AtLeast("cpu", "branch_miss_rate_pct", 5)

StallHolds == AtLeast("cpu", "frontend_stall_pct", 30) \/ AtLeast("cpu", "backend_stall_pct", 30)

ComputeHolds ==
    /\ AtLeast("cpu", "ipc", 150)
    /\ ~AtLeast("cpu", "frontend_stall_pct", 20)
    /\ ~AtLeast("cpu", "backend_stall_pct", 20)
    /\ ~L1dHigh
    /\ ~LlcHigh

\* The rules in priority order: condition, verdict, keys of the reason.
Cascade ==
    << [holds |-> ShortHolds, verdict |-> "No bottleneck", keys |-> {"elapsed_s", "note"}],
       [holds |-> IoHolds, verdict |-> "I/O/Wait",
        keys |-> {"io_wait_frac", "syscalls_total_seconds"}],
       [holds |-> MemHolds, verdict |-> "Memory",
        keys |-> {"llc_miss_rate_pct", "l1d_miss_rate_pct", "dtlb_miss_rate_pct",
                  "backend_stall_pct", "ram_total_bandwidth_mbps"}],
       [holds |-> BranchHolds, verdict |-> "CPU", keys |-> {"branch_miss_rate_pct"}],
       [holds |-> StallHolds, verdict |-> "CPU",
        keys |-> {"frontend_stall_pct", "backend_stall_pct"}],
       [holds |-> ComputeHolds, verdict |-> "CPU", keys |-> {"ipc"}],
       [holds |-> TRUE, verdict |-> "CPU",
        keys |-> {"ipc", "frontend_stall_pct", "backend_stall_pct", "branch_miss_rate_pct"}] >>

\* The highest-priority rule whose condition holds.
FirstMatch == CHOOSE i \in 1..7 : Cascade[i].holds /\ \A j \in 1..(i - 1) : ~Cascade[j].holds

(***************************************************************************)
(* C2. The rules are evaluated in the order short-lived > I/O/Wait >       *)
(* Memory > branch-misprediction > stall-dominated > compute-bound >       *)
(* default and evaluation stops at the first match: the verdict and the    *)
(* first reason are those of the highest-priority rule whose condition     *)
(* holds, and no lower-priority rule contributes a reason (the only other  *)
(* reason is the I/O rule's own list of top syscalls).                     *)
(***************************************************************************)
C2_PriorityOrder ==
    Classified =>
        /\ Verdict = Cascade[FirstMatch].verdict
        /\ DOMAIN cls.reasons[1] = Cascade[FirstMatch].keys
        /\ \A i \in 2..Len(cls.reasons) :
              FirstMatch = 2 /\ DOMAIN cls.reasons[i] = {"top_syscalls_by_time"}

\* The I/O, Memory and stall conditions hold together and I/O wins.
C2_Witness ==
    Classified /\ ~ShortHolds /\ IoHolds /\ MemHolds /\ StallHolds /\ Verdict = "I/O/Wait"

(***************************************************************************)
(* C3 (amended). Short-lived rule: whenever elapsed_s is known, nonzero    *)
(* and below 0.1 s and more than 70% of the total syscall time is spent in *)
(* the startup syscall set, the verdict is No bottleneck with              *)
(* parallel_potential n/a and confidence 0.9, whatever the CPU, cache,     *)
(* memory and wait-time signals are.                                       *)
(***************************************************************************)
C3_ShortLived ==
    (Classified /\ ElapsedMs # None /\ ElapsedMs # 0 /\ ElapsedMs < 100 /\ StartupDominated) =>
        /\ Verdict = "No bottleneck"
        /\ cls.parallel_potential = "n/a"
        /\ cls.confidence = 90

\* C3 as stated: elapsed_s known and below 0.1 s, a zero elapsed_s included.
C3_Original ==
    (Classified /\ ElapsedMs # None /\ ElapsedMs < 100 /\ StartupDominated) =>
        /\ Verdict = "No bottleneck"
        /\ cls.parallel_potential = "n/a"
        /\ cls.confidence = 90

\* A short-lived document that also waits and misses the last-level cache.
C3_Witness ==
    Classified /\ ShortHolds /\ WaitFractionHigh /\ LlcHigh /\ Verdict = "No bottleneck"

(***************************************************************************)
(* C4. I/O rule: when the short-lived rule does not fire, the verdict is   *)
(* I/O/Wait if and only if wait_time_s / elapsed_s >= 0.2 or total syscall *)
(* seconds / elapsed_s >= 0.3 (elapsed_s known and nonzero); the first     *)
(* reason then carries io_wait_frac, the wait fraction rounded to three    *)
(* decimals: the thousandth nearest to wait_time_s / elapsed_s.            *)
(***************************************************************************)
C4_IoRule ==
    (Classified /\ Verdict # "No bottleneck") =>
        /\ Verdict = "I/O/Wait" <=> IoHolds
        /\ Verdict = "I/O/Wait" =>
              LET frac == cls.reasons[1].io_wait_frac
                  wait == IF WaitMs = None THEN 0 ELSE WaitMs
                  err == 1000 * wait - frac * ElapsedMs
              IN  2 * err <= ElapsedMs /\ 2 * err >= -ElapsedMs

\* An I/O verdict whose wait fraction is not a whole number of thousandths.
C4_Witness ==
    /\ Classified /\ Verdict = "I/O/Wait"
    /\ WaitFractionHigh /\ (1000 * WaitMs) % ElapsedMs # 0

(***************************************************************************)
(* C5. Memory rule: when neither the short-lived nor the I/O rule fires,   *)
(* the verdict is Memory if and only if (a) backend_stall_pct is known,    *)
(* >= 20 and at least one of llc >= 5, l1d >= 10, dtlb >= 1 holds, or (b)  *)
(* backend_stall_pct is unknown and (llc >= 30, or two of the three miss   *)
(* signals, or bandwidth >= 1000 with one miss signal).  A known           *)
(* backend_stall_pct below 20 prevents a Memory verdict.                   *)
(***************************************************************************)
C5_MemoryRule ==
    (Classified /\ Verdict \notin {"No bottleneck", "I/O/Wait"}) =>
        /\ Verdict = "Memory" <=> MemHolds
        /\ Below("cpu", "backend_stall_pct", 20) => Verdict # "Memory"

\* Strong miss rates with a known low backend stall: the verdict stays CPU.
C5_Witness ==
    /\ Classified /\ Verdict = "CPU"
    /\ Below("cpu", "backend_stall_pct", 20)
    /\ AtLeast("cache", "llc_miss_rate_pct", 30) /\ L1dHigh /\ DtlbHigh

(***************************************************************************)
(* C6. Parallel potential is a function of the verdict and the signals:    *)
(* n/a exactly when the verdict is No bottleneck; low for Memory and       *)
(* I/O/Wait; for CPU, high when single-threaded (threads <= 1 or unknown)  *)
(* and ipc >= 1.0, otherwise medium when ipc >= 0.9 and per-core           *)
(* utilization < 85% (unknown counting as below), otherwise low.           *)
(***************************************************************************)
SingleThreaded ==
    Field("concurrency", "threads") = None \/ Field("concurrency", "threads") <= 1

CoreNotBusy ==
    \/ Field("timing", "cpu_utilization_per_core_pct") = None
    \/ Field("timing", "cpu_utilization_per_core_pct") < 85

C6_ParallelPotential ==
    Classified =>
        /\ cls.parallel_potential = "n/a" <=> Verdict = "No bottleneck"
        /\ Verdict \in {"Memory", "I/O/Wait"} => cls.parallel_potential = "low"
        /\ Verdict = "CPU" =>
              cls.parallel_potential =
                  IF SingleThreaded /\ AtLeast("cpu", "ipc", 100) THEN "high"
                  ELSE IF AtLeast("cpu", "ipc", 90) /\ CoreNotBusy THEN "medium"
                  ELSE "low"

\* ipc 1.8, low stalls and miss rates, one thread: CPU / high.
C6_Witness ==
    /\ Classified /\ data = ComputeBound
    /\ Verdict = "CPU" /\ cls.parallel_potential = "high"

(***************************************************************************)
(* C7. Confidence equals the branch-specific formula, clamped to [0,1] and *)
(* rounded to two decimals: 0.9 for No bottleneck; 0.35 + 0.13 * min(n,4)  *)
(* for Memory, n counting llc >= 5, l1d >= 10, dtlb >= 1, backend >= 20,   *)
(* bandwidth >= 1000; 0.4 + 0.3 * n for I/O/Wait, n counting wait fraction *)
(* >= 0.2 and syscall fraction >= 0.3; 0.3 + 0.15 * n for CPU, n counting  *)
(* ipc >= 1.5, frontend < 20, backend < 20, l1d < 10, llc < 5.             *)
(***************************************************************************)
HowMany(flags) == Cardinality({i \in DOMAIN flags : flags[i]})

MemorySignals == <<LlcHigh, L1dHigh, DtlbHigh, BackendHigh, BandwidthHigh>>

IoSignals == <<WaitFractionHigh, SyscallFractionHigh>>

CpuSignals ==
    << AtLeast("cpu", "ipc", 150),
       Below("cpu", "frontend_stall_pct", 20),
       Below("cpu", "backend_stall_pct", 20),
       Below("cache", "l1d_miss_rate_pct", 10),
       Below("cache", "llc_miss_rate_pct", 5) >>

\* x clamped to [0, 100] hundredths.
Clamped(x) == IF x > 100 THEN 100 ELSE IF x < 0 THEN 0 ELSE x

C7_Confidence ==
    Classified =>
        cls.confidence =
            CASE Verdict = "No bottleneck" -> 90
              [] Verdict = "Memory" ->
                    Clamped(35 + 13 * (IF HowMany(MemorySignals) > 4 THEN 4
                                       ELSE HowMany(MemorySignals)))
              [] Verdict = "I/O/Wait" -> Clamped(40 + 30 * HowMany(IoSignals))
              [] OTHER -> Clamped(30 + 15 * HowMany(CpuSignals))

\* backend_stall 25 and llc 8 with all else unknown: Memory with confidence 0.61.
C7_Witness ==
    Classified /\ data = MemoryBound /\ Verdict = "Memory" /\ cls.confidence = 61

(***************************************************************************)
(* C8. Default rule: when every field of every section is unknown, the     *)
(* verdict is CPU by the default branch, confidence is 0.3 and reasons     *)
(* holds exactly one entry, whose ipc, frontend_stall_pct,                 *)
(* backend_stall_pct and branch_miss_rate_pct are all unknown; and reasons *)
(* is non-empty for every input document.                                  *)
(***************************************************************************)
EveryFieldUnknown ==
    /\ \A f \in Fields \ {<<"syscalls", "*">>} : Field(f[1], f[2]) = None
    /\ Field("concurrency", "context_switches") = None
    /\ SyscallRows = <<>>
    /\ TotalSyscallMs = None

C8_DefaultRule ==
    Classified =>
        /\ Len(cls.reasons) >= 1
        /\ EveryFieldUnknown =>
              /\ Verdict = "CPU"
              /\ cls.confidence = 30
              /\ cls.reasons = << [ipc |-> None, frontend_stall_pct |-> None,
                                   backend_stall_pct |-> None, branch_miss_rate_pct |-> None] >>

\* The document with every field unknown has been classified.
C8_Witness == Classified /\ EveryFieldUnknown /\ Verdict = "CPU"

(***************************************************************************)
(* C9. Confidence is monotonic in the corroborating signals: for two       *)
(* documents that receive the same verdict, if the corroborating (Memory,  *)
(* I/O) or favorable (CPU) signals present in the first are a subset of    *)
(* those present in the second, the confidence of the first is at most the *)
(* confidence of the second.                                               *)
(***************************************************************************)
HasAtLeast(d, section, key, low) ==
    LET x == Get(Section(d, section), key) IN x # None /\ x >= low

HasBelow(d, section, key, high) ==
    LET x == Get(Section(d, section), key) IN x # None /\ x < high

\* The signals of document d that count for the given verdict.
SignalsOf(d, verdict) ==
    LET elapsed == Get(Section(d, "timing"), "elapsed_s")
        wait == Get(Section(d, "timing"), "wait_time_s")
        total == SyscallsTotalSeconds(Section(d, "syscalls"))
        timed == elapsed # None /\ elapsed > 0
    IN  CASE verdict = "Memory" ->
                {n \in {"llc", "l1d", "dtlb", "backend", "bandwidth"} :
                    \/ n = "llc" /\ HasAtLeast(d, "cache", "llc_miss_rate_pct", 5)
                    \/ n = "l1d" /\ HasAtLeast(d, "cache", "l1d_miss_rate_pct", 10)
                    \/ n = "dtlb" /\ HasAtLeast(d, "memory", "dtlb_miss_rate_pct", 1)
                    \/ n = "backend" /\ HasAtLeast(d, "cpu", "backend_stall_pct", 20)
                    \/ n = "bandwidth"
                          /\ HasAtLeast(d, "memory", "ram_total_bandwidth_mbps", 1000)}
          [] verdict = "I/O/Wait" ->
                {n \in {"wait", "syscalls"} :
                    \/ n = "wait" /\ timed /\ wait # None /\ 5 * wait >= elapsed
                    \/ n = "syscalls" /\ timed /\ total # None /\ 10 * total >= 3 * elapsed}
          [] verdict = "CPU" ->
                {n \in {"ipc", "frontend", "backend", "l1d", "llc"} :
                    \/ n = "ipc" /\ HasAtLeast(d, "cpu", "ipc", 150)
                    \/ n = "frontend" /\ HasBelow(d, "cpu", "frontend_stall_pct", 20)
                    \/ n = "backend" /\ HasBelow(d, "cpu", "backend_stall_pct", 20)
                    \/ n = "l1d" /\ HasBelow(d, "cache", "l1d_miss_rate_pct", 10)
                    \/ n = "llc" /\ HasBelow(d, "cache", "llc_miss_rate_pct", 5)}
          [] OTHER -> {}

SameVerdictAsBefore ==
    Classified /\ prev # NoPrev /\ prev.cls.primary_bottleneck = Verdict

C9_ConfidenceMonotone ==
    SameVerdictAsBefore =>
        /\ SignalsOf(prev.data, Verdict) \subseteq SignalsOf(data, Verdict)
              => prev.cls.confidence <= cls.confidence
        /\ SignalsOf(data, Verdict) \subseteq SignalsOf(prev.data, Verdict)
              => cls.confidence <= prev.cls.confidence

\* The same verdict with one more signal, and a strictly higher confidence.
C9_Witness ==
    /\ SameVerdictAsBefore
    /\ SignalsOf(prev.data, Verdict) \subseteq SignalsOf(data, Verdict)
    /\ SignalsOf(prev.data, Verdict) # SignalsOf(data, Verdict)
    /\ prev.cls.confidence < cls.confidence

(***************************************************************************)
(* C10. Missing-field robustness: with any one of the six sections         *)
(* replaced by a fully unknown section (all fields unknown, an empty       *)
(* mapping, an absent section, and for syscalls a raw-text fallback or     *)
(* rows with unknown numeric fields), classify_result terminates without   *)
(* raising and returns a well-formed Classification with all five keys.    *)
(***************************************************************************)
ClassificationKeys ==
    {"primary_bottleneck", "parallel_potential", "confidence", "reasons", "suggestions"}

C10_MissingFieldRobust ==
    /\ pc # "raised"
    /\ Classified =>
        /\ DOMAIN cls = ClassificationKeys
        /\ cls.primary_bottleneck \in {"CPU", "Memory", "I/O/Wait", "No bottleneck"}
        /\ cls.parallel_potential \in {"high", "medium", "low", "n/a"}
        /\ cls.confidence \in 0..100
        /\ DOMAIN cls.reasons = 1..Len(cls.reasons) /\ Len(cls.reasons) >= 1
        /\ DOMAIN cls.suggestions = 1..Len(cls.suggestions)

\* An I/O verdict over rows whose seconds are unknown: sorting them raised
\* inside the guarded block and no top-syscalls reason was added.
C10_Witness ==
    /\ Classified /\ Verdict = "I/O/Wait"
    /\ Len(SyscallRows) >= 2
    /\ \E i \in DOMAIN SyscallRows : SyscallRows[i].seconds = None
    /\ Len(cls.reasons) = 1

\* A document without its timing section has been classified.
C10_WitnessAbsent == Classified /\ "timing" \notin DOMAIN data

(***************************************************************************)
(* C11. Augment round-trip: the augmented output holds every top-level key *)
(* of the input document other than performance_classification with its    *)
(* value unchanged, and performance_classification with the value          *)
(* classify_result returned, replacing any value the input held under that *)
(* key; its keys are the input's keys and performance_classification.      *)
(* Classification itself modifies no field of the document.                *)
(***************************************************************************)
Augmented == pc = "written" /\ out.augment

C11_AugmentRoundTrip ==
    /\ Classified => data = input
    /\ Augmented =>
        /\ DOMAIN out.json = DOMAIN input \cup {"performance_classification"}
        /\ \A k \in DOMAIN input \ {"performance_classification"} : out.json[k] = input[k]
        /\ out.json["performance_classification"] = cls

\* C11 as stated: every original key unchanged, and exactly one new key.
C11_Original ==
    /\ Classified => data = input
    /\ Augmented =>
        /\ \A k \in DOMAIN input : k \in DOMAIN out.json /\ out.json[k] = input[k]
        /\ DOMAIN out.json \ DOMAIN input = {"performance_classification"}
        /\ out.json["performance_classification"] = cls

\* An augmented output in which the classification an earlier run left was replaced.
C11_Witness ==
    /\ Augmented
    /\ "performance_classification" \in DOMAIN input
    /\ input["performance_classification"] # cls
    /\ out.json["performance_classification"] = cls
    /\ out.json["timing"] = input["timing"]

(***************************************************************************)
(* C12. Verdict monotonicity in miss rates: for a document whose verdict   *)
(* is CPU, raising exactly one of llc_miss_rate_pct, l1d_miss_rate_pct or  *)
(* dtlb_miss_rate_pct from below its threshold (5, 10, 1) to at or above   *)
(* it, every other field held fixed, yields Memory or still CPU, never     *)
(* I/O/Wait or No bottleneck.                                              *)
(***************************************************************************)
\* The document is the previous one with this one miss rate raised across its threshold.
RaisedAcross(section, key, threshold) ==
    /\ prev # NoPrev
    /\ LET before == Get(Section(prev.data, section), key)
           after == Get(Section(input, section), key)
       IN  /\ before # None /\ before < threshold
           /\ after # None /\ after >= threshold
           /\ input = [prev.data EXCEPT ![section][key] = after]

MissRateRaised ==
    \/ RaisedAcross("cache", "llc_miss_rate_pct", 5)
    \/ RaisedAcross("cache", "l1d_miss_rate_pct", 10)
    \/ RaisedAcross("memory", "dtlb_miss_rate_pct", 1)

C12_MissRateMonotone ==
    (Classified /\ MissRateRaised /\ prev.cls.primary_bottleneck = "CPU")
        => Verdict \in {"Memory", "CPU"}

\* A CPU verdict that became Memory when one miss rate crossed its threshold.
C12_Witness ==
    /\ Classified /\ MissRateRaised
    /\ prev.cls.primary_bottleneck = "CPU"
    /\ Verdict = "Memory"

\* A CPU verdict that stayed CPU although one miss rate crossed its threshold.
C12_WitnessStillCpu ==
    /\ Classified /\ MissRateRaised
    /\ prev.cls.primary_bottleneck = "CPU"
    /\ Verdict = "CPU"

(***************************************************************************)
(* C13. Output-redirection caveat: whenever the verdict is CPU and the     *)
(* syscall rows show more than 100 write invocations whose time is under   *)
(* 10% of elapsed time, the buffering caveat is among the suggestions; it  *)
(* is never emitted for a verdict other than CPU.                          *)
(***************************************************************************)
WriteRowsKnown ==
    \A i \in DOMAIN SyscallRows :
        SyscallRows[i].syscall = "write"
            => SyscallRows[i].calls # None /\ SyscallRows[i].seconds # None

WriteCalls == SumSeq(FieldOfRows(SyscallRows, {"write"}, "calls", 0))

WriteMs == SumSeq(FieldOfRows(SyscallRows, {"write"}, "seconds", 0))

\* More than 100 write invocations whose time is under 10% of the elapsed time.
CheapWrites ==
    /\ WriteRowsKnown
    /\ WriteCalls > 100
    /\ ElapsedMs # None /\ ElapsedMs > 0
    /\ 10 * WriteMs < ElapsedMs

CaveatSaid == \E i \in DOMAIN cls.suggestions : cls.suggestions[i] = "redirect_caveat"

Restrict(d, ks) == [k \in DOMAIN d \cap ks |-> d[k]]

\* The dict of the entries of m that were set.
Present(m) == Restrict(m, {k \in DOMAIN m : m[k] # None})

\* d after `if cond: d[k] = v`
PutIf(cond, d, k, v) == IF cond THEN Put(d, k, v) ELSE d

\* Variant: the default replaces the value that is there.
EnsureKeysOverwriting(dest, defaults) ==
    [k \in DOMAIN dest \cup DOMAIN defaults |->
        IF k \in DOMAIN defaults THEN defaults[k] ELSE dest[k]]

\* ensure_keys(dest, defaults)
EnsureKeys(dest, defaults) ==
    [k \in DOMAIN dest \cup DOMAIN defaults |->
        IF k \in DOMAIN dest THEN dest[k] ELSE defaults[k]]

\* The fields run_perf_stat can set.
PerfKeys ==
    {"task_clock_ms", "elapsed_s", "user_s", "sys_s", "instructions", "cycles", "ref_cycles",
     "branches", "branch_misses", "l1_dcache_loads", "l1_dcache_load_misses",
     "l1_dcache_stores", "l1_icache_loads", "l1_icache_load_misses", "llc_loads",
     "llc_load_misses", "llc_stores", "llc_store_misses", "dtlb_loads", "dtlb_load_misses",
     "itlb_loads", "itlb_load_misses", "stalled_cycles_frontend", "stalled_cycles_backend",
     "context_switches", "cpu_migrations", "page_faults", "minor_faults", "major_faults",
     "alignment_faults", "emulation_faults"}

\* perf_data = run_perf_stat(binary, program_args) if perf_usable else {}
PerfData(run) == IF run.perf_usable THEN Present(run.perf) ELSE EmptyMap

(***************************************************************************)
(* Timing section.                                                         *)
(***************************************************************************)
TimingTriple == {"elapsed_s", "user_s", "sys_s"}

\* Variant: the difference is not floored at zero.
ClampedWaitUnfloored(elapsed, user, sys) == elapsed - (user + sys)

\* max(0.0, elapsed - (user + sys))
ClampedWait(elapsed, user, sys) == Max(0, elapsed - (user + sys))

\* wait_time of main(): None unless perf gave the three times
PerfWaitTime(perf_data) ==
    IF TimingTriple \subseteq DOMAIN perf_data
    THEN ClampedWait(perf_data["elapsed_s"], perf_data["user_s"], perf_data["sys_s"])
    ELSE None

TimingFromPerf(perf_data) ==
    LET t0 == Restrict(perf_data, TimingTriple)
        t1 == PutIf(PerfWaitTime(perf_data) # None, t0, "wait_time_s", PerfWaitTime(perf_data))
    IN  PutIf("task_clock_ms" \in DOMAIN perf_data, t1, "task_clock_ms",
              Get(perf_data, "task_clock_ms"))

\* cpu_utilization_pct and cpu_utilization_per_core_pct
WithUtilization(t, cores) ==
    IF "task_clock_ms" \in DOMAIN t /\ "elapsed_s" \in DOMAIN t /\ t["elapsed_s"] > 0
    THEN Put(Put(t, "cpu_utilization_pct", RoundDiv(100000 * t["task_clock_ms"], t["elapsed_s"])),
             "cpu_utilization_per_core_pct",
             RoundDiv(100000 * t["task_clock_ms"], t["elapsed_s"] * cores))
    ELSE t

\* What run_time_v_timing returns for the values its lines gave.
TimeVResult(tv) ==
    LET t == Present(tv)
    IN  PutIf(TimingTriple \subseteq DOMAIN t, t, "wait_time_s",
              ClampedWait(Get(t, "elapsed_s"), Get(t, "user_s"), Get(t, "sys_s")))

\* Variant: the fallback values replace the ones perf gave.
FillMissingOverwriting(t, tv) ==
    [k \in DOMAIN t \cup DOMAIN tv |-> IF k \in DOMAIN tv THEN tv[k] ELSE t[k]]

\* for k, v in tv.items(): if k not in timing: timing[k] = v
FillMissing(t, tv) ==
    [k \in DOMAIN t \cup DOMAIN tv |-> IF k \in DOMAIN t THEN t[k] ELSE tv[k]]

NeedsFallback(t) == ~(TimingTriple \subseteq DOMAIN t)

TimingSection(run, perf_data) ==
    LET t == WithUtilization(TimingFromPerf(perf_data), run.cores)
    IN  IF NeedsFallback(t) THEN FillMissing(t, TimeVResult(run.tv)) ELSE t

(***************************************************************************)
(* CPU section.                                                            *)
(***************************************************************************)
\* round(n / d, 6), in millionths
Ratio6(n, d) == RoundDiv(1000000 * n, d)

\* round(100.0 * n / d, 3), in thousandths of a percent
Pct3(n, d) == RoundDiv(100000 * n, d)

\* round(100.0 * n / d, 6), in millionths of a percent
Pct6(n, d) == RoundDiv(100000000 * n, d)

\* cpu["note"] of a run without usable counters
NoteParanoidLevel == 1
NotePermission == 2

WithStall(c, perf_data, counter, pct) ==
    IF counter \in DOMAIN perf_data
    THEN PutIf("cycles" \in DOMAIN perf_data /\ Truthy(Get(perf_data, "cycles")),
               Put(c, counter, perf_data[counter]),
               pct, Pct3(Get(perf_data, counter), Get(perf_data, "cycles")))
    ELSE c

\* Variant: the rate capped at 100 like the cache miss rates.
BranchMissRateCapped(branch_misses, branches) ==
    Min(Pct6(branch_misses, branches), 100 * 1000000)

\* round(100.0 * branch_misses / branches, 6)
BranchMissRate(branch_misses, branches) == Pct6(branch_misses, branches)

CpuSection(run, perf_data, timing) ==
    IF perf_data # EmptyMap
    THEN LET c0 == Restrict(perf_data, {"instructions", "cycles", "ref_cycles"})
             c1 == PutIf(/\ {"instructions", "cycles"} \subseteq DOMAIN perf_data
                         /\ Truthy(Get(perf_data, "cycles")),
                         c0, "ipc",
                         Ratio6(Get(perf_data, "instructions"), Get(perf_data, "cycles")))
             c2 == PutIf(/\ {"cycles", "ref_cycles"} \subseteq DOMAIN perf_data
                         /\ Truthy(Get(perf_data, "ref_cycles")),
                         c1, "frequency_ratio",
                         Ratio6(Get(perf_data, "cycles"), Get(perf_data, "ref_cycles")))
             c3 == WithStall(c2, perf_data, "stalled_cycles_frontend", "frontend_stall_pct")
             c4 == WithStall(c3, perf_data, "stalled_cycles_backend", "backend_stall_pct")
             c5 == FillMissing(c4, Restrict(perf_data, {"branches", "branch_misses"}))
             c6 == PutIf(/\ {"branches", "branch_misses"} \subseteq DOMAIN perf_data
                         /\ Truthy(Get(perf_data, "branches")),
                         c5, "branch_miss_rate_pct",
                         BranchMissRate(Get(perf_data, "branch_misses"),
                                        Get(perf_data, "branches")))
         IN  PutIf("instructions" \in DOMAIN c6 /\ Truthy(Get(timing, "elapsed_s")),
                   c6, "instructions_per_second",
                   (Get(c6, "instructions") * 1024 * 1000) \div Get(timing, "elapsed_s"))
    ELSE PutIf(~run.perf_usable, EmptyMap, "note",
               IF run.level_readable THEN NoteParanoidLevel ELSE NotePermission)

(***************************************************************************)
(* Cache section and memory_access.                                        *)
(***************************************************************************)
\* Variant: the test is for known counters and a nonzero load count.
MissRateKnownCounters(perf_data, loads, misses) ==
    IF Known(Get(perf_data, loads)) /\ Known(Get(perf_data, misses))
       /\ Get(perf_data, loads) # 0
    THEN Min(Pct6(Get(perf_data, misses), Max(1, Get(perf_data, loads))), 100 * 1000000)
    ELSE None

\* Variant: the rate is not capped at 100.
MissRateUncapped(perf_data, loads, misses) ==
    IF Truthy(Get(perf_data, loads)) /\ Truthy(Get(perf_data, misses))
    THEN Pct6(Get(perf_data, misses), Max(1, Get(perf_data, loads)))
    ELSE None

\* if perf_data.get(loads) and perf_data.get(misses):
\*     round(min(100.0 * misses / max(1, loads), 100.0), 6)   else None
MissRate(perf_data, loads, misses) ==
    IF Truthy(Get(perf_data, loads)) /\ Truthy(Get(perf_data, misses))
    THEN Min(Pct6(Get(perf_data, misses), Max(1, Get(perf_data, loads))), 100 * 1000000)
    ELSE None

CacheSection(perf_data) ==
    IF perf_data # EmptyMap
    THEN [l1d_loads |-> Get(perf_data, "l1_dcache_loads"),
          l1d_load_misses |-> Get(perf_data, "l1_dcache_load_misses"),
          l1d_stores |-> Get(perf_data, "l1_dcache_stores"),
          l1d_miss_rate_pct |-> MissRate(perf_data, "l1_dcache_loads", "l1_dcache_load_misses"),
          l1i_loads |-> Get(perf_data, "l1_icache_loads"),
          l1i_load_misses |-> Get(perf_data, "l1_icache_load_misses"),
          l1i_miss_rate_pct |-> MissRate(perf_data, "l1_icache_loads", "l1_icache_load_misses"),
          llc_loads |-> Get(perf_data, "llc_loads"),
          llc_load_misses |-> Get(perf_data, "llc_load_misses"),
          llc_stores |-> Get(perf_data, "llc_stores"),
          llc_store_misses |-> Get(perf_data, "llc_store_misses"),
          llc_miss_rate_pct |-> MissRate(perf_data, "llc_loads", "llc_load_misses")]
    ELSE EmptyMap

\* cache_line_bytes = 64
CacheLineBytes == 64

\* round(bytes / (1024 * 1024), 3) for bytes in KiB, in thousandths of a MB
Megabytes(kib) == RoundDiv(kib * 1000, 1024)

\* round(bytes / (1024 * 1024 * elapsed), 3) for bytes in KiB and elapsed in ms
Mbps(kib, elapsed) == RoundDiv(kib * 1000000, 1024 * elapsed)

BandwidthKeys ==
    {"ram_read_bytes", "ram_read_mb", "ram_read_bandwidth_mbps",
     "ram_write_bytes", "ram_write_mb", "ram_write_bandwidth_mbps",
     "ram_total_bytes", "ram_total_mb", "ram_total_bandwidth_mbps",
     "ram_read_pct", "ram_write_pct", "l1_cache_traffic_mb", "l1_cache_bandwidth_mbps"}

\* Variant: the elapsed time is not tested; a zero one counts as one millisecond.
BandwidthIgnoringElapsed(perf_data, timing) ==
    LET elapsed == Max(1, IF "elapsed_s" \in DOMAIN timing THEN timing["elapsed_s"] ELSE 0)
        lm == Get(perf_data, "llc_load_misses")
        sm == Get(perf_data, "llc_store_misses")
    IN  [k \in BandwidthKeys |->
            CASE k = "ram_read_bandwidth_mbps" ->
                    IF lm # None THEN Mbps(lm * CacheLineBytes, elapsed) ELSE None
              [] k = "ram_write_bandwidth_mbps" ->
                    IF sm # None THEN Mbps(sm * CacheLineBytes, elapsed) ELSE None
              [] k = "ram_total_bandwidth_mbps" ->
                    IF lm # None /\ sm # None THEN Mbps((lm + sm) * CacheLineBytes, elapsed)
                    ELSE None
              [] OTHER -> None]

\* The bandwidth estimation block of main().
Bandwidth(perf_data, timing) ==
    LET elapsed == IF "elapsed_s" \in DOMAIN timing THEN timing["elapsed_s"] ELSE 0
        lm == Get(perf_data, "llc_load_misses")
        sm == Get(perf_data, "llc_store_misses")
        l1l == Get(perf_data, "l1_dcache_loads")
        l1s == Get(perf_data, "l1_dcache_stores")
        both == lm # None /\ sm # None
        total_bytes == (lm + sm) * CacheLineBytes
        l1_known == l1l # None /\ l1s # None
    IN  IF elapsed > 0
        THEN [ram_read_bytes |-> IF lm # None THEN lm * CacheLineBytes ELSE None,
              ram_read_mb |-> IF lm # None THEN Megabytes(lm * CacheLineBytes) ELSE None,
              ram_read_bandwidth_mbps |->
                  IF lm # None THEN Mbps(lm * CacheLineBytes, elapsed) ELSE None,
              ram_write_bytes |-> IF sm # None THEN sm * CacheLineBytes ELSE None,
              ram_write_mb |-> IF sm # None THEN Megabytes(sm * CacheLineBytes) ELSE None,
              ram_write_bandwidth_mbps |->
                  IF sm # None THEN Mbps(sm * CacheLineBytes, elapsed) ELSE None,
              ram_total_bytes |-> IF both THEN total_bytes ELSE None,
              ram_total_mb |-> IF both THEN Megabytes(total_bytes) ELSE None,
              ram_total_bandwidth_mbps |-> IF both THEN Mbps(total_bytes, elapsed) ELSE None,
              ram_read_pct |->
                  IF both /\ total_bytes > 0
                  THEN RoundDiv(10000 * (lm * CacheLineBytes), total_bytes) ELSE None,
              ram_write_pct |->
                  IF both /\ total_bytes > 0
                  THEN RoundDiv(10000 * (sm * CacheLineBytes), total_bytes) ELSE None,
              l1_cache_traffic_mb |->
                  IF l1_known THEN Megabytes((l1l + l1s) * CacheLineBytes) ELSE None,
              l1_cache_bandwidth_mbps |->
                  IF l1_known THEN Mbps((l1l + l1s) * CacheLineBytes, elapsed) ELSE None]
        ELSE [k \in BandwidthKeys |-> None]

FaultKeys == {"page_faults", "minor_faults", "major_faults", "alignment_faults", "emulation_faults"}

\* memory_access of main()
MemoryAccess(perf_data, timing) ==
    IF perf_data # EmptyMap
    THEN FillMissing(
            FillMissing(
                [dtlb_loads |-> Get(perf_data, "dtlb_loads"),
                 dtlb_load_misses |-> Get(perf_data, "dtlb_load_misses"),
                 itlb_loads |-> Get(perf_data, "itlb_loads"),
                 itlb_load_misses |-> Get(perf_data, "itlb_load_misses"),
                 dtlb_miss_rate_pct |-> MissRate(perf_data, "dtlb_loads", "dtlb_load_misses"),
                 itlb_miss_rate_pct |-> MissRate(perf_data, "itlb_loads", "itlb_load_misses")],
                [k \in FaultKeys |-> Get(perf_data, k)]),
            Bandwidth(perf_data, timing))
    ELSE EmptyMap

(***************************************************************************)
(* Concurrency and memory sections.                                        *)
(***************************************************************************)
\* round(count / elapsed_s, 3), in thousandths
PerSecond(count, elapsed) == RoundDiv(count * 1000000, elapsed)

ConcurrencySection(run, perf_data, timing) ==
    LET c0 == IF perf_data # EmptyMap
              THEN Restrict(perf_data, {"context_switches", "cpu_migrations"})
              ELSE EmptyMap
        timed == "elapsed_s" \in DOMAIN timing /\ Truthy(Get(timing, "elapsed_s"))
        c1 == PutIf("context_switches" \in DOMAIN c0 /\ timed, c0, "ctx_switches_per_second",
                    PerSecond(Get(c0, "context_switches"), Get(timing, "elapsed_s")))
        c2 == PutIf("cpu_migrations" \in DOMAIN c0 /\ timed, c1, "migrations_per_second",
                    PerSecond(Get(c0, "cpu_migrations"), Get(timing, "elapsed_s")))
    IN  Put(c2, "threads", run.threads)

\* The keys main() copies from memory_access with .get
MemoryAccessKeys ==
    {"dtlb_loads", "dtlb_load_misses", "dtlb_miss_rate_pct",
     "itlb_loads", "itlb_load_misses", "itlb_miss_rate_pct"} \cup FaultKeys \cup BandwidthKeys

\* The value of "memcheck" when there is no leak summary.  An empty summary is
\* never stored (`if memcheck:`), so the empty mapping stands for None there.
NoSummary == EmptyMap

\* memory.update(d): the entries of d replace and extend those of memory
Update(memory, d) == FillMissing(d, memory)

MemorySection(run, memory_access) ==
    LET m0 == [k \in MemoryAccessKeys |-> Get(memory_access, k)]
        m1 == PutIf(run.rss # None, m0, "max_rss_kb", run.rss)
        m2 == Update(m1, run.massif)
    IN  PutIf(run.memcheck # EmptyMap, m2, "memcheck", run.memcheck)

(***************************************************************************)
(* Schema defaults and the produced document.                              *)
(***************************************************************************)
DefaultTiming ==
    [k \in {"elapsed_s", "user_s", "sys_s", "wait_time_s", "task_clock_ms",
            "cpu_utilization_pct", "cpu_utilization_per_core_pct"} |-> None]

DefaultCpu ==
    [k \in {"instructions", "cycles", "ref_cycles", "ipc", "frequency_ratio",
            "stalled_cycles_frontend", "frontend_stall_pct", "stalled_cycles_backend",
            "backend_stall_pct", "branches", "branch_misses", "branch_miss_rate_pct",
            "instructions_per_second", "note"} |-> None]

DefaultCache ==
    [k \in {"l1d_loads", "l1d_load_misses", "l1d_stores", "l1d_miss_rate_pct",
            "l1i_loads", "l1i_load_misses", "l1i_miss_rate_pct",
            "llc_loads", "llc_load_misses", "llc_stores", "llc_store_misses",
            "llc_miss_rate_pct"} |-> None]

DefaultConcurrency(num_threads) ==
    [context_switches |-> None, cpu_migrations |-> None, ctx_switches_per_second |-> None,
     migrations_per_second |-> None, threads |-> num_threads]

MassifKeys ==
    {"massif_peak_heap_bytes", "massif_peak_heap_extra_bytes", "massif_peak_total_bytes",
     "massif_peak_stacks_bytes", "massif_peak_time", "massif_peak_snapshot"}

DefaultMemory ==
    [k \in MemoryAccessKeys \cup {"max_rss_kb", "memcheck"} \cup MassifKeys |->
        IF k = "memcheck" THEN NoSummary ELSE None]

\* The syscalls normalisation of main().
NormalizedSyscalls(syscalls) ==
    IF "syscalls" \notin DOMAIN syscalls /\ "raw" \notin DOMAIN syscalls
    THEN [syscalls |-> <<>>, total |-> EmptyMap]
    ELSE syscalls

\* The sections as main() has them before the schema defaults are applied.
Sections(run) ==
    LET perf_data == PerfData(run)
        timing == TimingSection(run, perf_data)
    IN  [timing |-> timing,
         cpu |-> CpuSection(run, perf_data, timing),
         cache |-> CacheSection(perf_data),
         concurrency |-> ConcurrencySection(run, perf_data, timing),
         memory |-> MemorySection(run, MemoryAccess(perf_data, timing)),
         syscalls |-> run.strace]

\* The sections after ensure_keys and the syscalls normalisation: the result
\* document (its binary, architecture and binary_footprint entries left out).
Filled(run, sections) ==
    [timing |-> EnsureKeys(sections.timing, DefaultTiming),
     cpu |-> EnsureKeys(sections.cpu, DefaultCpu),
     cache |-> EnsureKeys(sections.cache, DefaultCache),
     concurrency |-> EnsureKeys(sections.concurrency, DefaultConcurrency(run.threads)),
     memory |-> EnsureKeys(sections.memory, DefaultMemory),
     syscalls |-> NormalizedSyscalls(sections.syscalls)]

(***************************************************************************)
(* Tool results of a profiler run.                                         *)
(***************************************************************************)
\* The number of tool results in which a run differs from a reference run.
MaxToolChanged == 1

\* run_valgrind when the massif output holds no snapshot, and when it holds some.
MassifNothing ==
    [k \in MassifKeys |-> IF k \in {"massif_peak_time", "massif_peak_snapshot"} THEN None ELSE 0]

MassifPeak ==
    [massif_peak_heap_bytes |-> 4096, massif_peak_heap_extra_bytes |-> 64,
     massif_peak_total_bytes |-> 4160, massif_peak_stacks_bytes |-> 0,
     massif_peak_time |-> 1200, massif_peak_snapshot |-> 3]

\* run_valgrind_memcheck on a clean run.
CleanSummary ==
    [errors |-> 0, definitely_lost_bytes |-> 0, indirectly_lost_bytes |-> 0,
     possibly_lost_bytes |-> 0, still_reachable_bytes |-> 0, suppressed_bytes |-> 0]

LoadKeys == {"l1_dcache_loads", "l1_icache_loads", "llc_loads", "dtlb_loads", "itlb_loads"}

MissKeys ==
    {"branch_misses", "l1_dcache_load_misses", "l1_icache_load_misses", "llc_load_misses",
     "dtlb_load_misses", "itlb_load_misses"}

\* The values run_perf_stat may have parsed for a field (None: the field was not set).
PerfVals(k) ==
    CASE k = "elapsed_s" -> {None, 0, 500, 2000}
      [] k = "user_s" -> {None, 0, 500, 3000}
      [] k = "sys_s" -> {None, 300}
      [] k = "task_clock_ms" -> {None, 0, 1500}
      [] k \in {"instructions", "cycles"} -> {None, 0, 2, 8}
      [] k \in {"ref_cycles", "branches"} \cup LoadKeys -> {None, 0, 8}
      [] k \in MissKeys -> {None, 0, 2, 20}
      [] k \in {"stalled_cycles_frontend", "stalled_cycles_backend",
                "l1_dcache_stores", "llc_stores", "llc_store_misses"} -> {None, 0, 2}
      [] OTHER -> {None, 0, 3}

TimeVVals(k) ==
    CASE k = "elapsed_s" -> {None, 0, 2000}
      [] k = "user_s" -> {None, 500, 3000}
      [] OTHER -> {None, 300}

EnvVals(n) ==
    CASE n \in {"perf_usable", "level_readable"} -> BOOLEAN
      [] n \in {"cores", "threads"} -> {1, 4}
      [] n = "rss" -> {None, 4096}
      [] n = "massif" -> {MassifNothing, MassifPeak}
      [] n = "memcheck" -> {EmptyMap, CleanSummary}
      [] OTHER -> {[raw |-> "strace"], SyscallTable(StraceRows)}

RunFields ==
    {<<"perf", k>> : k \in PerfKeys} \cup {<<"tv", k>> : k \in TimingTriple}
        \cup {<<"env", n>> : n \in {"perf_usable", "level_readable", "cores", "threads",
                                      "rss", "massif", "memcheck", "strace"}}

RunVals(f) ==
    CASE f[1] = "perf" -> PerfVals(f[2])
      [] f[1] = "tv" -> TimeVVals(f[2])
      [] OTHER -> EnvVals(f[2])

SetRun(run, f, v) ==
    IF f[1] = "env" THEN [run EXCEPT ![f[2]] = v] ELSE [run EXCEPT ![f[1]][f[2]] = v]

\* Every tool gave everything.
FullRun ==
    [perf_usable |-> TRUE, level_readable |-> TRUE, cores |-> 4, threads |-> 1,
     rss |-> 4096, massif |-> MassifPeak, memcheck |-> CleanSummary,
     strace |-> SyscallTable(StraceRows),
     perf |-> [k \in PerfKeys |->
                 CASE k = "elapsed_s" -> 2000
                   [] k = "user_s" -> 500
                   [] k = "sys_s" -> 300
                   [] k = "task_clock_ms" -> 1500
                   [] k \in {"instructions", "cycles", "ref_cycles", "branches"} \cup LoadKeys -> 8
                   [] k \in {"context_switches", "cpu_migrations"} \cup FaultKeys -> 3
                   [] OTHER -> 2],
     tv |-> [elapsed_s |-> 2000, user_s |-> 500, sys_s |-> 300]]

\* The counters were not usable; the other tools gave everything.
FallbackRun == [FullRun EXCEPT !.perf_usable = FALSE]

\* No tool gave anything usable.
FailedRun ==
    [perf_usable |-> TRUE, level_readable |-> TRUE, cores |-> 1, threads |-> 1,
     rss |-> None, massif |-> MassifNothing, memcheck |-> EmptyMap,
     strace |-> [raw |-> "strace"],
     perf |-> [k \in PerfKeys |-> None],
     tv |-> [k \in TimingTriple |-> None]]

\* The counters were usable and counted nothing but time.
QuietRun ==
    [FullRun EXCEPT !.perf = [k \in PerfKeys |->
                                IF k \in TimingTriple \cup {"task_clock_ms"} THEN FullRun.perf[k] ELSE 0]]

\* The counter summary gave the elapsed time but neither user nor sys time,
\* as the summaries of older perf versions do; the verbose-timing run, a
\* separate execution of the target, took longer.
MixedRun ==
    [FullRun EXCEPT !.perf = [FullRun.perf EXCEPT !["elapsed_s"] = 500, !["user_s"] = None,
                                                  !["sys_s"] = None]]

ReferenceRuns == {FullRun, FallbackRun, FailedRun, QuietRun, MixedRun}

RECURSIVE AroundRuns(_, _)
AroundRuns(runs, k) ==
    IF k = 0 THEN runs
    ELSE LET near == AroundRuns(runs, k - 1)
         IN  near \cup { SetRun(r, f[1], f[2]) :
                           r \in near, f \in UNION { {<<g, v>> : v \in RunVals(g)} : g \in RunFields } }

Runs == AroundRuns(ReferenceRuns, MaxToolChanged)

(***************************************************************************)
(* main() of the profiler: the sections are built from the tool results,   *)
(* then the schema defaults are applied and the document is written.       *)
(***************************************************************************)
InitProfile ==
    /\ input \in Runs
    /\ data = EmptyMap
    /\ cls = NoCls
    /\ pc = "measured"
    /\ prev = NoPrev
    /\ out = NoOut

\* main() from perf_data = ... to memcheck = ...
Derive ==
    /\ pc = "measured"
    /\ data' = Sections(input)
    /\ pc' = "derived"
    /\ UNCHANGED <<input, cls, prev, out>>

\* main() from the schema defaults to json.dump(result, ...)
Fill ==
    /\ pc = "derived"
    /\ data' = Filled(input, data)
    /\ out' = [augment |-> FALSE, json |-> data']
    /\ pc' = "profiled"
    /\ UNCHANGED <<input, cls, prev>>

NextProfile == Derive \/ Fill

SpecProfile == InitProfile /\ [][NextProfile]_vars

\* The sections that have schema defaults, and the defaults of each.
SchemaSections == {"timing", "cpu", "cache", "concurrency", "memory"}

SchemaDefaults(section, run) ==
    CASE section = "timing" -> DefaultTiming
      [] section = "cpu" -> DefaultCpu
      [] section = "cache" -> DefaultCache
      [] section = "concurrency" -> DefaultConcurrency(run.threads)
      [] OTHER -> DefaultMemory

\* The key holds the explicit unknown value.
HoldsUnknown(d, k) == IF k = "memcheck" THEN d[k] = NoSummary ELSE d[k] = None

\* C14: schema completeness.  Whatever the tools gave, the step that applies
\* the schema defaults leaves every declared key of the timing, cpu, cache,
\* concurrency and memory sections in the document; a key that was not
\* produced holds the unknown value, and a key that was produced keeps the
\* value it had.
C14_SchemaComplete ==
    [][Fill =>
        \A s \in SchemaSections :
           /\ DOMAIN SchemaDefaults(s, input) \subseteq DOMAIN data'[s]
           /\ \A k \in DOMAIN data[s] : data'[s][k] = data[s][k]
           /\ \A k \in DOMAIN SchemaDefaults(s, input) \ DOMAIN data[s] :
                 HoldsUnknown(data'[s], k)]_vars

\* A document in which one key was filled in and another was produced.
C14_Witness ==
    /\ pc = "profiled"
    /\ input.rss = None
    /\ data.memory["max_rss_kb"] = None
    /\ input.perf_usable
    /\ Known(input.perf["cycles"])
    /\ data.cpu["cycles"] = input.perf["cycles"]
    /\ data.cpu["note"] = None

\* The derived ratios: section, field, numerator counter, denominator counter.
CounterRatios ==
    {<<"cpu", "ipc", "instructions", "cycles">>,
     <<"cpu", "frequency_ratio", "cycles", "ref_cycles">>,
     <<"cpu", "frontend_stall_pct", "stalled_cycles_frontend", "cycles">>,
     <<"cpu", "backend_stall_pct", "stalled_cycles_backend", "cycles">>,
     <<"cpu", "branch_miss_rate_pct", "branch_misses", "branches">>}

MissRatios ==
    {<<"cache", "l1d_miss_rate_pct", "l1_dcache_load_misses", "l1_dcache_loads">>,
     <<"cache", "l1i_miss_rate_pct", "l1_icache_load_misses", "l1_icache_loads">>,
     <<"cache", "llc_miss_rate_pct", "llc_load_misses", "llc_loads">>,
     <<"memory", "dtlb_miss_rate_pct", "dtlb_load_misses", "dtlb_loads">>,
     <<"memory", "itlb_miss_rate_pct", "itlb_load_misses", "itlb_loads">>}

\* The ratio r of the document is known exactly when both counters are known
\* and the denominator is not zero.
KnownWhenDerivable(r) ==
    LET numerator == Get(PerfData(input), r[3])
        denominator == Get(PerfData(input), r[4])
    IN  Known(data[r[1]][r[2]]) <=> (Known(numerator) /\ Known(denominator) /\ denominator # 0)

\* C15: ratio derivation.  In the produced document each derived ratio (ipc,
\* frequency_ratio, the two stall percentages, branch_miss_rate_pct and the
\* five miss-rate percentages) is known exactly when its numerator and its
\* denominator counter are known and the denominator is not zero, so that a
\* numerator of 0 over a nonzero denominator gives a known 0.
C15_RatioDerivation ==
    pc = "profiled" => \A r \in CounterRatios \cup MissRatios : KnownWhenDerivable(r)

\* The part of C15 that the derivation satisfies: the five ratios of the cpu
\* section, and every miss rate whose miss counter is not zero.
C15_RatiosOfNonzeroMisses ==
    pc = "profiled" =>
        /\ \A r \in CounterRatios : KnownWhenDerivable(r)
        /\ \A r \in MissRatios :
              Get(PerfData(input), r[3]) # 0 => KnownWhenDerivable(r)

\* A document of a run that counted 8 Ki L1 data loads and no miss: the miss
\* rate is unknown, while the ipc of a run without instructions is a known 0.
C15_Witness ==
    /\ pc = "profiled"
    /\ input.perf_usable
    /\ input.perf["l1_dcache_loads"] = 8
    /\ input.perf["l1_dcache_load_misses"] = 0
    /\ data.cache["l1d_miss_rate_pct"] = None
    /\ data.cache["llc_miss_rate_pct"] > 0

\* A numerator of 0 over a nonzero denominator gives a known 0 in the cpu section.
C15_WitnessZeroIpc ==
    /\ pc = "profiled"
    /\ input.perf_usable
    /\ input.perf["instructions"] = 0
    /\ input.perf["cycles"] > 0
    /\ data.cpu["ipc"] = 0

\* 100 percent in the unit of the miss rates.
FullRate == 100 * 1000000

InRange(rate) == Known(rate) => (0 <= rate /\ rate <= FullRate)

\* C16: in every produced document each known miss-rate percentage
\* (l1d, l1i, llc, dtlb, itlb and branch) lies in [0, 100], also when the tool
\* reported more misses than loads or branches.
C16_MissRatesInRange ==
    pc = "profiled" =>
        /\ \A r \in MissRatios : InRange(data[r[1]][r[2]])
        /\ InRange(data.cpu["branch_miss_rate_pct"])

\* The part of C16 that the derivation satisfies: the five cache and TLB rates.
C16_CacheRatesInRange ==
    pc = "profiled" => \A r \in MissRatios : InRange(data[r[1]][r[2]])

\* A run that counted 20 Ki branch misses in 8 Ki branches and 20 Ki L1 data
\* misses in 8 Ki loads: the L1 rate is 100, the branch rate 250.
C16_Witness ==
    /\ pc = "profiled"
    /\ input.perf_usable
    /\ input.perf["branch_misses"] = 20
    /\ input.perf["branches"] = 8
    /\ data.cpu["branch_miss_rate_pct"] = 250 * 1000000

\* A cache miss counter above its load counter gives a rate of exactly 100.
C16_WitnessCapped ==
    /\ pc = "profiled"
    /\ input.perf_usable
    /\ input.perf["llc_load_misses"] = 20
    /\ input.perf["llc_loads"] = 8
    /\ data.cache["llc_miss_rate_pct"] = FullRate

\* C17: in every produced document wait_time_s is unknown or at least 0,
\* whether the counter summary or the verbose-timing fallback gave the times,
\* also when user_s + sys_s is more than elapsed_s.
C17_WaitNeverNegative ==
    pc = "profiled" => (data.timing["wait_time_s"] = None \/ data.timing["wait_time_s"] >= 0)

\* The fallback gave the times, and user + sys is more than elapsed.
C17_Witness ==
    /\ pc = "profiled"
    /\ ~input.perf_usable
    /\ Known(input.tv["elapsed_s"])
    /\ Known(input.tv["sys_s"])
    /\ input.tv["user_s"] + input.tv["sys_s"] > input.tv["elapsed_s"]
    /\ data.timing["wait_time_s"] = 0

\* The counter summary gave the times, and user + sys is more than elapsed.
C17_WitnessCounters ==
    /\ pc = "profiled"
    /\ input.perf_usable
    /\ Known(input.perf["elapsed_s"])
    /\ Known(input.perf["sys_s"])
    /\ input.perf["user_s"] + input.perf["sys_s"] > input.perf["elapsed_s"]
    /\ data.timing["wait_time_s"] = 0

\* bytes * 64 / elapsed in MB/s (thousandths) for a miss counter in Ki events
\* and elapsed in ms; None unless derivable
BandwidthOf(misses, elapsed) ==
    IF Known(elapsed) /\ elapsed > 0 /\ Known(misses)
    THEN RoundDiv(misses * 64 * 1000000, 1024 * elapsed)
    ELSE None

\* the share (hundredths of a percent) of part in part + other
ShareOf(part, other, elapsed) ==
    IF Known(elapsed) /\ elapsed > 0 /\ Known(part) /\ Known(other) /\ part + other > 0
    THEN RoundDiv(10000 * part, part + other)
    ELSE None

\* C18: RAM bandwidth derivation.  In the produced document the read
\* bandwidth is LLC load misses x 64 bytes / elapsed, the write bandwidth LLC
\* store misses x 64 bytes / elapsed, the total is derived from both counters
\* and so is the read/write percentage split; each of the five is unknown
\* when elapsed is zero or unknown or when a counter it needs is unknown, and
\* the percentages are unknown as well when the total is 0 bytes.
C18_RamBandwidth ==
    pc = "profiled" =>
        LET elapsed == data.timing["elapsed_s"]
            loads == Get(PerfData(input), "llc_load_misses")
            stores == Get(PerfData(input), "llc_store_misses")
            both == IF Known(loads) /\ Known(stores) THEN loads + stores ELSE None
        IN  /\ data.memory["ram_read_bandwidth_mbps"] = BandwidthOf(loads, elapsed)
            /\ data.memory["ram_write_bandwidth_mbps"] = BandwidthOf(stores, elapsed)
            /\ data.memory["ram_total_bandwidth_mbps"] = BandwidthOf(both, elapsed)
            /\ data.memory["ram_read_pct"] = ShareOf(loads, stores, elapsed)
            /\ data.memory["ram_write_pct"] = ShareOf(stores, loads, elapsed)

\* A run of 2 s with 20 Ki load misses and 2 Ki store misses: 0.625 MB/s read,
\* 0.062 MB/s written (0.0625 rounded to even), 90.91 % read.
C18_Witness ==
    /\ pc = "profiled"
    /\ data.timing["elapsed_s"] = 2000
    /\ data.cache["llc_load_misses"] = 20
    /\ data.cache["llc_store_misses"] = 2
    /\ data.memory["ram_read_bandwidth_mbps"] = 625
    /\ data.memory["ram_write_bandwidth_mbps"] = 62
    /\ data.memory["ram_total_bandwidth_mbps"] = 688
    /\ data.memory["ram_read_pct"] = 9091
    /\ data.memory["ram_write_pct"] = 909

\* Both counters known and elapsed zero: every bandwidth field is unknown.
C18_WitnessZeroElapsed ==
    /\ pc = "profiled"
    /\ data.timing["elapsed_s"] = 0
    /\ Known(data.cache["llc_load_misses"])
    /\ Known(data.cache["llc_store_misses"])
    /\ \A k \in BandwidthKeys : data.memory[k] = None

\* Elapsed known, the store counter unknown: read is known, total and split are not.
C18_WitnessOneCounter ==
    /\ pc = "profiled"
    /\ data.timing["elapsed_s"] > 0
    /\ data.cache["llc_store_misses"] = None
    /\ Known(data.memory["ram_read_bandwidth_mbps"])
    /\ data.memory["ram_total_bandwidth_mbps"] = None
    /\ data.memory["ram_read_pct"] = None

\* Both counters zero: the total is a known 0 and the split is unknown.
C18_WitnessZeroTotal ==
    /\ pc = "profiled"
    /\ data.memory["ram_total_bandwidth_mbps"] = 0
    /\ data.memory["ram_read_pct"] = None

(***************************************************************************)
(* The parsers of the profiler (src/profiler.py).                          *)
(*                                                                         *)
(* A text is a string; Chars gives its characters, so that `p in line` is  *)
(* a search for p among the characters of the line.  A token is a word of  *)
(* a line: its form is how it is written, its val the number it writes,    *)
(* its text what it says when it is no number.                             *)
(*   "int"            8192          "float"          1.5                   *)
(*   "grouped"        8,192         "grouped_float"  1,234.5               *)
(*   "word"           abc           "not"            <not                  *)
(*   "empty"          (nothing)                                            *)
(***************************************************************************)
Chars(s) ==
    CASE s = "msec task-clock # 0.998 cpus utilized" ->
            <<"m", "s", "e", "c", " ", "t", "a", "s", "k", "-", "c", "l", "o", "c", "k", " ", "#", " ", "0", ".", "9", "9", "8", " ", "c", "p", "u", "s", " ", "u", "t", "i", "l", "i", "z", "e", "d">>
      [] s = "seconds time elapsed" ->
            <<"s", "e", "c", "o", "n", "d", "s", " ", "t", "i", "m", "e", " ", "e", "l", "a", "p", "s", "e", "d">>
      [] s = "seconds user" ->
            <<"s", "e", "c", "o", "n", "d", "s", " ", "u", "s", "e", "r">>
      [] s = "seconds sys" ->
            <<"s", "e", "c", "o", "n", "d", "s", " ", "s", "y", "s">>
      [] s = "instructions # 0.85 insn per cycle" ->
            <<"i", "n", "s", "t", "r", "u", "c", "t", "i", "o", "n", "s", " ", "#", " ", "0", ".", "8", "5", " ", "i", "n", "s", "n", " ", "p", "e", "r", " ", "c", "y", "c", "l", "e">>
      [] s = "ref-cycles" ->
            <<"r", "e", "f", "-", "c", "y", "c", "l", "e", "s">>
      [] s = "cycles # 3.500 ghz" ->
            <<"c", "y", "c", "l", "e", "s", " ", "#", " ", "3", ".", "5", "0", "0", " ", "g", "h", "z">>
      [] s = "branches" ->
            <<"b", "r", "a", "n", "c", "h", "e", "s">>
      [] s = "branch-misses # 2.50% of all branches" ->
            <<"b", "r", "a", "n", "c", "h", "-", "m", "i", "s", "s", "e", "s", " ", "#", " ", "2", ".", "5", "0", "%", " ", "o", "f", " ", "a", "l", "l", " ", "b", "r", "a", "n", "c", "h", "e", "s">>
      [] s = "l1-dcache-loads" ->
            <<"l", "1", "-", "d", "c", "a", "c", "h", "e", "-", "l", "o", "a", "d", "s">>
      [] s = "l1-dcache-load-misses" ->
            <<"l", "1", "-", "d", "c", "a", "c", "h", "e", "-", "l", "o", "a", "d", "-", "m", "i", "s", "s", "e", "s">>
      [] s = "l1-dcache-stores" ->
            <<"l", "1", "-", "d", "c", "a", "c", "h", "e", "-", "s", "t", "o", "r", "e", "s">>
      [] s = "l1-icache-loads" ->
            <<"l", "1", "-", "i", "c", "a", "c", "h", "e", "-", "l", "o", "a", "d", "s">>
      [] s = "l1-icache-load-misses" ->
            <<"l", "1", "-", "i", "c", "a", "c", "h", "e", "-", "l", "o", "a", "d", "-", "m", "i", "s", "s", "e", "s">>
      [] s = "llc-loads" ->
            <<"l", "l", "c", "-", "l", "o", "a", "d", "s">>
      [] s = "llc-load-misses" ->
            <<"l", "l", "c", "-", "l", "o", "a", "d", "-", "m", "i", "s", "s", "e", "s">>
      [] s = "llc-stores" ->
            <<"l", "l", "c", "-", "s", "t", "o", "r", "e", "s">>
      [] s = "llc-store-misses" ->
            <<"l", "l", "c", "-", "s", "t", "o", "r", "e", "-", "m", "i", "s", "s", "e", "s">>
      [] s = "dtlb-loads" ->
            <<"d", "t", "l", "b", "-", "l", "o", "a", "d", "s">>
      [] s = "dtlb-load-misses" ->
            <<"d", "t", "l", "b", "-", "l", "o", "a", "d", "-", "m", "i", "s", "s", "e", "s">>
      [] s = "itlb-loads" ->
            <<"i", "t", "l", "b", "-", "l", "o", "a", "d", "s">>
      [] s = "itlb-load-misses" ->
            <<"i", "t", "l", "b", "-", "l", "o", "a", "d", "-", "m", "i", "s", "s", "e", "s">>
      [] s = "stalled-cycles-frontend # 25.00% frontend cycles idle" ->
            <<"s", "t", "a", "l", "l", "e", "d", "-", "c", "y", "c", "l", "e", "s", "-", "f", "r", "o", "n", "t", "e", "n", "d", " ", "#", " ", "2", "5", ".", "0", "0", "%", " ", "f", "r", "o", "n", "t", "e", "n", "d", " ", "c", "y", "c", "l", "e", "s", " ", "i", "d", "l", "e">>
      [] s = "stalled-cycles-backend # 10.00% backend cycles idle" ->
            <<"s", "t", "a", "l", "l", "e", "d", "-", "c", "y", "c", "l", "e", "s", "-", "b", "a", "c", "k", "e", "n", "d", " ", "#", " ", "1", "0", ".", "0", "0", "%", " ", "b", "a", "c", "k", "e", "n", "d", " ", "c", "y", "c", "l", "e", "s", " ", "i", "d", "l", "e">>
      [] s = "context-switches" ->
            <<"c", "o", "n", "t", "e", "x", "t", "-", "s", "w", "i", "t", "c", "h", "e", "s">>
      [] s = "cpu-migrations" ->
            <<"c", "p", "u", "-", "m", "i", "g", "r", "a", "t", "i", "o", "n", "s">>
      [] s = "page-faults" ->
            <<"p", "a", "g", "e", "-", "f", "a", "u", "l", "t", "s">>
      [] s = "minor-faults" ->
            <<"m", "i", "n", "o", "r", "-", "f", "a", "u", "l", "t", "s">>
      [] s = "major-faults" ->
            <<"m", "a", "j", "o", "r", "-", "f", "a", "u", "l", "t", "s">>
      [] s = "alignment-faults" ->
            <<"a", "l", "i", "g", "n", "m", "e", "n", "t", "-", "f", "a", "u", "l", "t", "s">>
      [] s = "emulation-faults" ->
            <<"e", "m", "u", "l", "a", "t", "i", "o", "n", "-", "f", "a", "u", "l", "t", "s">>
      [] s = "counter stats for './a.out':" ->
            <<"c", "o", "u", "n", "t", "e", "r", " ", "s", "t", "a", "t", "s", " ", "f", "o", "r", " ", "'", ".", "/", "a", ".", "o", "u", "t", "'", ":">>
      [] s = "task-clock" ->
            <<"t", "a", "s", "k", "-", "c", "l", "o", "c", "k">>
      [] s = "instructions" ->
            <<"i", "n", "s", "t", "r", "u", "c", "t", "i", "o", "n", "s">>
      [] s = "reference cycles" ->
            <<"r", "e", "f", "e", "r", "e", "n", "c", "e", " ", "c", "y", "c", "l", "e", "s">>
      [] s = "cycles" ->
            <<"c", "y", "c", "l", "e", "s">>
      [] s = "branch-misses" ->
            <<"b", "r", "a", "n", "c", "h", "-", "m", "i", "s", "s", "e", "s">>
      [] s = "l1d.replacement" ->
            <<"l", "1", "d", ".", "r", "e", "p", "l", "a", "c", "e", "m", "e", "n", "t">>
      [] s = "l1i.replacements" ->
            <<"l", "1", "i", ".", "r", "e", "p", "l", "a", "c", "e", "m", "e", "n", "t", "s">>
      [] s = "l1i.replacement" ->
            <<"l", "1", "i", ".", "r", "e", "p", "l", "a", "c", "e", "m", "e", "n", "t">>
      [] s = "stalled-cycles-frontend" ->
            <<"s", "t", "a", "l", "l", "e", "d", "-", "c", "y", "c", "l", "e", "s", "-", "f", "r", "o", "n", "t", "e", "n", "d">>
      [] s = "stalled-cycles-backend" ->
            <<"s", "t", "a", "l", "l", "e", "d", "-", "c", "y", "c", "l", "e", "s", "-", "b", "a", "c", "k", "e", "n", "d">>
      [] s = "major" ->
            <<"m", "a", "j", "o", "r">>
      [] s = "minor" ->
            <<"m", "i", "n", "o", "r">>
      [] s = "%" ->
            <<"%">>
      [] s = "time" ->
            <<"t", "i", "m", "e">>
      [] s = "seconds" ->
            <<"s", "e", "c", "o", "n", "d", "s">>
      [] s = "usecs/call" ->
            <<"u", "s", "e", "c", "s", "/", "c", "a", "l", "l">>
      [] s = "calls" ->
            <<"c", "a", "l", "l", "s">>
      [] s = "errors" ->
            <<"e", "r", "r", "o", "r", "s">>
      [] s = "syscall" ->
            <<"s", "y", "s", "c", "a", "l", "l">>
      [] s = "execve" ->
            <<"e", "x", "e", "c", "v", "e">>
      [] s = "futex" ->
            <<"f", "u", "t", "e", "x">>
      [] s = "write" ->
            <<"w", "r", "i", "t", "e">>
      [] s = "read" ->
            <<"r", "e", "a", "d">>
      [] s = "total" ->
            <<"t", "o", "t", "a", "l">>
      [] s = "restart_syscall" ->
            <<"r", "e", "s", "t", "a", "r", "t", "_", "s", "y", "s", "c", "a", "l", "l">>

\* p in text
Contains(text, p) ==
    \E i \in 1..(Len(text) - Len(p) + 1) : SubSeq(text, i, i + Len(p) - 1) = p

Tok(form, val) == [form |-> form, val |-> val, text |-> ""]

\* A word that is no number: its text.
Word(text) == [form |-> "word", val |-> None, text |-> text]

\* int(s): the ValueError is Raise
IntOf(tok) == IF tok.form = "int" THEN Return(tok.val) ELSE Raise(None)

\* float(s): the ValueError is Raise
FloatOf(tok) == IF tok.form \in {"int", "float"} THEN Return(tok.val) ELSE Raise(None)

\* s.replace(",", "")
WithoutCommas(tok) ==
    CASE tok.form = "grouped" -> Tok("int", tok.val)
      [] tok.form = "grouped_float" -> Tok("float", tok.val)
      [] OTHER -> tok

\* "." in s
HasDot(tok) == tok.form \in {"float", "grouped_float"}

(***************************************************************************)
(* run_perf_stat.  A line is its first word (value) and the rest in lower  *)
(* case (text); a text of "" is a line of fewer than two words.            *)
(***************************************************************************)
\* The labels the parser looks for.
PerfPatterns ==
    {"task-clock", "seconds time elapsed", "seconds user", "seconds sys", "instructions",
     "ref-cycles", "reference cycles", "cycles", "branch-misses", "branches",
     "l1-dcache-loads", "l1d.replacement", "l1-dcache-load-misses", "l1-dcache-stores",
     "l1-icache-loads", "l1i.replacements", "l1i.replacement", "l1-icache-load-misses",
     "llc-loads", "llc-load-misses", "llc-stores", "llc-store-misses",
     "dtlb-loads", "dtlb-load-misses", "itlb-loads", "itlb-load-misses",
     "stalled-cycles-frontend", "stalled-cycles-backend",
     "context-switches", "cpu-migrations", "page-faults", "major", "minor",
     "minor-faults", "major-faults", "alignment-faults", "emulation-faults"}

\* The lines of a counter summary after their first word, in lower case, and
\* the field each is a report of.
PerfLabels ==
    [task_clock_ms |-> "msec task-clock # 0.998 cpus utilized",
     elapsed_s |-> "seconds time elapsed",
     user_s |-> "seconds user",
     sys_s |-> "seconds sys",
     instructions |-> "instructions # 0.85 insn per cycle",
     ref_cycles |-> "ref-cycles",
     cycles |-> "cycles # 3.500 ghz",
     branches |-> "branches",
     branch_misses |-> "branch-misses # 2.50% of all branches",
     l1_dcache_loads |-> "l1-dcache-loads",
     l1_dcache_load_misses |-> "l1-dcache-load-misses",
     l1_dcache_stores |-> "l1-dcache-stores",
     l1_icache_loads |-> "l1-icache-loads",
     l1_icache_load_misses |-> "l1-icache-load-misses",
     llc_loads |-> "llc-loads",
     llc_load_misses |-> "llc-load-misses",
     llc_stores |-> "llc-stores",
     llc_store_misses |-> "llc-store-misses",
     dtlb_loads |-> "dtlb-loads",
     dtlb_load_misses |-> "dtlb-load-misses",
     itlb_loads |-> "itlb-loads",
     itlb_load_misses |-> "itlb-load-misses",
     stalled_cycles_frontend |-> "stalled-cycles-frontend # 25.00% frontend cycles idle",
     stalled_cycles_backend |-> "stalled-cycles-backend # 10.00% backend cycles idle",
     context_switches |-> "context-switches",
     cpu_migrations |-> "cpu-migrations",
     page_faults |-> "page-faults",
     minor_faults |-> "minor-faults",
     major_faults |-> "major-faults",
     alignment_faults |-> "alignment-faults",
     emulation_faults |-> "emulation-faults"]

\* The line that opens the summary.
PerfBanner == "counter stats for './a.out':"

PerfTexts == {PerfLabels[f] : f \in PerfKeys} \cup {PerfBanner}

\* The labels found in each text.
PerfHits == [t \in PerfTexts |-> {p \in PerfPatterns : Contains(Chars(t), Chars(p))}]

\* The elif chain, in its order: a branch is taken when a label of `any` is in
\* the line and none of `none` is.
PerfBranches ==
    << [any |-> {"task-clock"}, none |-> {}, field |-> "task_clock_ms"],
       [any |-> {"seconds time elapsed"}, none |-> {}, field |-> "elapsed_s"],
       [any |-> {"seconds user"}, none |-> {}, field |-> "user_s"],
       [any |-> {"seconds sys"}, none |-> {}, field |-> "sys_s"],
       [any |-> {"instructions"}, none |-> {}, field |-> "instructions"],
       [any |-> {"ref-cycles", "reference cycles"}, none |-> {}, field |-> "ref_cycles"],
       [any |-> {"cycles"}, none |-> {"ref-cycles"}, field |-> "cycles"],
       [any |-> {"branch-misses"}, none |-> {}, field |-> "branch_misses"],
       [any |-> {"branches"}, none |-> {}, field |-> "branches"],
       [any |-> {"l1-dcache-loads", "l1d.replacement"}, none |-> {}, field |-> "l1_dcache_loads"],
       [any |-> {"l1-dcache-load-misses"}, none |-> {}, field |-> "l1_dcache_load_misses"],
       [any |-> {"l1-dcache-stores"}, none |-> {}, field |-> "l1_dcache_stores"],
       [any |-> {"l1-icache-loads", "l1i.replacements", "l1i.replacement"}, none |-> {},
        field |-> "l1_icache_loads"],
       [any |-> {"l1-icache-load-misses"}, none |-> {}, field |-> "l1_icache_load_misses"],
       [any |-> {"llc-loads"}, none |-> {}, field |-> "llc_loads"],
       [any |-> {"llc-load-misses"}, none |-> {}, field |-> "llc_load_misses"],
       [any |-> {"llc-stores"}, none |-> {}, field |-> "llc_stores"],
       [any |-> {"llc-store-misses"}, none |-> {}, field |-> "llc_store_misses"],
       [any |-> {"dtlb-loads"}, none |-> {}, field |-> "dtlb_loads"],
       [any |-> {"dtlb-load-misses"}, none |-> {}, field |-> "dtlb_load_misses"],
       [any |-> {"itlb-loads"}, none |-> {}, field |-> "itlb_loads"],
       [any |-> {"itlb-load-misses"}, none |-> {}, field |-> "itlb_load_misses"],
       [any |-> {"stalled-cycles-frontend"}, none |-> {}, field |-> "stalled_cycles_frontend"],
       [any |-> {"stalled-cycles-backend"}, none |-> {}, field |-> "stalled_cycles_backend"],
       [any |-> {"context-switches"}, none |-> {}, field |-> "context_switches"],
       [any |-> {"cpu-migrations"}, none |-> {}, field |-> "cpu_migrations"],
       [any |-> {"page-faults"}, none |-> {"major", "minor"}, field |-> "page_faults"],
       [any |-> {"minor-faults"}, none |-> {}, field |-> "minor_faults"],
       [any |-> {"major-faults"}, none |-> {}, field |-> "major_faults"],
       [any |-> {"alignment-faults"}, none |-> {}, field |-> "alignment_faults"],
       [any |-> {"emulation-faults"}, none |-> {}, field |-> "emulation_faults"] >>

Taken(branch, hits) == branch.any \cap hits # {} /\ branch.none \cap hits = {}

\* The first branch of the chain that is taken; 0 when none is.
PerfBranchOf(hits) ==
    IF \E i \in DOMAIN PerfBranches : Taken(PerfBranches[i], hits)
    THEN CHOOSE i \in DOMAIN PerfBranches :
            /\ Taken(PerfBranches[i], hits)
            /\ \A j \in 1..(i - 1) : ~Taken(PerfBranches[j], hits)
    ELSE 0

\* value_str = parts[0].replace(",", "").replace("<not", "").replace("supported>", "")
PerfValueStr(tok) == IF tok.form = "not" THEN Tok("empty", None) ELSE WithoutCommas(tok)

\* value = float(value_str) if "." in value_str else int(value_str)
PerfValue(tok) ==
    LET value_str == PerfValueStr(tok)
    IN  IF HasDot(value_str) THEN FloatOf(value_str) ELSE IntOf(value_str)

\* metrics["task_clock_ms"] = float(parts[0].replace(",", "")) in a try
PerfTaskClock(metrics, tok) ==
    IF FloatOf(WithoutCommas(tok)).raised THEN Return(metrics)
    ELSE Return(Put(metrics, "task_clock_ms", FloatOf(WithoutCommas(tok)).val))

\* metrics[field] = float(parts[0])
PerfSeconds(metrics, field, tok) ==
    IF FloatOf(tok).raised THEN Raise(metrics) ELSE Return(Put(metrics, field, FloatOf(tok).val))

\* The body of the loop for one line: the metrics after it, or the exception.
PerfLine(metrics, line) ==
    IF line.text = "" \/ PerfValueStr(line.value).form = "empty" \/ PerfValue(line.value).raised
    THEN Return(metrics)
    ELSE LET b == PerfBranchOf(PerfHits[line.text])
             field == PerfBranches[b].field
         IN  IF b = 0 THEN Return(metrics)
             ELSE IF field = "task_clock_ms" THEN PerfTaskClock(metrics, line.value)
             ELSE IF field \in TimingTriple THEN PerfSeconds(metrics, field, line.value)
             ELSE Return(Put(metrics, field, PerfValue(line.value).val))

\* The loop over the lines from line i on.
RECURSIVE PerfLoop(_, _, _)
PerfLoop(metrics, lines, i) ==
    IF i > Len(lines) THEN Return(metrics)
    ELSE LET step == PerfLine(metrics, lines[i])
         IN  IF step.raised THEN step ELSE PerfLoop(step.val, lines, i + 1)

\* run_perf_stat on an output of these lines
RunPerfStat(lines) == PerfLoop(EmptyMap, lines, 1)

(***************************************************************************)
(* run_time_v_timing.  A line is its label (head) and the pieces that      *)
(* follow it, each after a colon (chunks): "User time (seconds): 0.50" has *)
(* one chunk, "Elapsed (wall clock) time (h:mm:ss or m:ss): 0:01.23" has   *)
(* five, a line cut after its label has none.                              *)
(***************************************************************************)
TimeVUser == "User time (seconds)"
TimeVSystem == "System time (seconds)"
TimeVElapsed == "Elapsed (wall clock) time (h"

\* float(ls.split(":", 1)[1].strip()) in a try: the text after the first colon
TimeVSeconds(timing, field, chunks) ==
    IF Len(chunks) = 1 /\ ~FloatOf(chunks[1]).raised
    THEN Put(timing, field, FloatOf(chunks[1]).val)
    ELSE timing

\* parse_elapsed_to_seconds(s) for the text after the last colon, which holds
\* no colon: float(s), None when that fails
ParseElapsedToSeconds(tok) == IF FloatOf(tok).raised THEN None ELSE FloatOf(tok).val

\* val = ls.rsplit(":", 1)[1].strip(); ev = parse_elapsed_to_seconds(val)
TimeVElapsedLine(timing, chunks) ==
    IF chunks = <<>> THEN Raise(timing)
    ELSE Return(PutIf(ParseElapsedToSeconds(chunks[Len(chunks)]) # None, timing, "elapsed_s",
                      ParseElapsedToSeconds(chunks[Len(chunks)])))

TimeVLine(timing, line) ==
    IF line.head = TimeVUser /\ line.chunks # <<>>
    THEN Return(TimeVSeconds(timing, "user_s", line.chunks))
    ELSE IF line.head = TimeVSystem /\ line.chunks # <<>>
    THEN Return(TimeVSeconds(timing, "sys_s", line.chunks))
    ELSE IF line.head \in {TimeVElapsed, "Elapsed (wall clock) time"}
    THEN TimeVElapsedLine(timing, line.chunks)
    ELSE Return(timing)

RECURSIVE TimeVLoop(_, _, _)
TimeVLoop(timing, lines, i) ==
    IF i > Len(lines) THEN Return(timing)
    ELSE LET step == TimeVLine(timing, lines[i])
         IN  IF step.raised THEN step ELSE TimeVLoop(step.val, lines, i + 1)

\* run_time_v_timing on an output of these lines
RunTimeVTiming(lines) ==
    LET loop == TimeVLoop(EmptyMap, lines, 1)
    IN  IF loop.raised THEN loop
        ELSE Return(PutIf(TimingTriple \subseteq DOMAIN loop.val, loop.val, "wait_time_s",
                          ClampedWait(Get(loop.val, "elapsed_s"), Get(loop.val, "user_s"),
                                      Get(loop.val, "sys_s"))))

(***************************************************************************)
(* run_strace_summary.  A line is the sequence of its words; a word that   *)
(* is not a number carries its text, a run of dashes has the form "dashes".*)
(***************************************************************************)
\* safe_float(s), safe_int(s)
SafeFloat(tok) == IF FloatOf(tok).raised THEN 0 ELSE FloatOf(tok).val
SafeInt(tok) == IF IntOf(tok).raised THEN 0 ELSE IntOf(tok).val

\* "syscall" in l.lower()
MentionsSyscall(line) ==
    \E i \in DOMAIN line :
        line[i].form = "word" /\ Contains(Chars(line[i].text), Chars("syscall"))

\* The index of the first line that mentions "syscall"; 0 when none does.
HeaderIdx(lines) ==
    IF \E i \in DOMAIN lines : MentionsSyscall(lines[i])
    THEN CHOOSE i \in DOMAIN lines :
            MentionsSyscall(lines[i]) /\ \A j \in 1..(i - 1) : ~MentionsSyscall(lines[j])
    ELSE 0

\* " ".join(parts[idx:]) for words that carry their text
RECURSIVE JoinWords(_, _)
JoinWords(parts, idx) ==
    IF idx > Len(parts) THEN ""
    ELSE IF idx = Len(parts) THEN parts[idx].text
    ELSE parts[idx].text \o " " \o JoinWords(parts, idx + 1)

\* A reading of the row that takes the fifth word for the errors count
\* whatever it is
StraceRowWithErrorsColumn(parts) ==
    [syscall |-> JoinWords(parts, 6),
     calls |-> SafeInt(parts[4]),
     errors |-> SafeInt(parts[5]),
     seconds |-> SafeFloat(parts[2]),
     usecs_per_call |-> SafeFloat(parts[3]),
     pct_time |-> SafeFloat(parts[1])]

\* The row or total a line of at least five words gives.
StraceRow(parts) ==
    LET has_errors == parts[5].form = "int"
        idx == IF has_errors THEN 6 ELSE 5
    IN  [syscall |-> JoinWords(parts, idx),
         calls |-> SafeInt(parts[4]),
         errors |-> IF has_errors THEN SafeInt(parts[5]) ELSE 0,
         seconds |-> SafeFloat(parts[2]),
         usecs_per_call |-> SafeFloat(parts[3]),
         pct_time |-> SafeFloat(parts[1])]

\* The lines after the header that are neither dashes nor shorter than five words.
IsStraceRow(parts) == (\E i \in DOMAIN parts : parts[i].form # "dashes") /\ Len(parts) >= 5

\* A sort by seconds alone, equal rows in their order
RECURSIVE InsertBySeconds(_, _)
InsertBySeconds(sorted, r) ==
    IF sorted = <<>> THEN <<r>>
    ELSE IF Head(sorted).seconds >= r.seconds
         THEN <<Head(sorted)>> \o InsertBySeconds(Tail(sorted), r)
         ELSE <<r>> \o sorted

\* rows.sort(key=(seconds, calls), reverse=True): the place of a row in the
\* sorted list, equal rows in their order
RECURSIVE InsertBySecondsCalls(_, _)
InsertBySecondsCalls(sorted, r) ==
    IF sorted = <<>> THEN <<r>>
    ELSE IF \/ Head(sorted).seconds > r.seconds
            \/ (Head(sorted).seconds = r.seconds /\ Head(sorted).calls >= r.calls)
         THEN <<Head(sorted)>> \o InsertBySecondsCalls(Tail(sorted), r)
         ELSE <<r>> \o sorted

\* The loop over the lines after the header: the rows, sorted, and the total.
RECURSIVE StraceLoop(_, _, _, _)
StraceLoop(rows, total, lines, i) ==
    IF i > Len(lines) THEN [rows |-> rows, total |-> total]
    ELSE IF ~IsStraceRow(lines[i]) THEN StraceLoop(rows, total, lines, i + 1)
    ELSE LET r == StraceRow(lines[i])
         IN  IF r.syscall = "total"
             THEN StraceLoop(rows,
                             [pct_time |-> IF r.pct_time # 0 THEN r.pct_time ELSE 100,
                              seconds |-> r.seconds, usecs_per_call |-> r.usecs_per_call,
                              calls |-> r.calls, errors |-> r.errors],
                             lines, i + 1)
             ELSE IF r.syscall = "" THEN StraceLoop(rows, total, lines, i + 1)
             ELSE StraceLoop(InsertBySecondsCalls(rows, r), total, lines, i + 1)

\* run_strace_summary on an output of these lines
RunStraceSummary(lines) ==
    LET header_idx == HeaderIdx(lines)
        parsed == StraceLoop(<<>>, EmptyMap, lines, header_idx + 1)
    IN  IF header_idx = 0 \/ parsed.rows = <<>> THEN Return([raw |-> lines])
        ELSE Return([syscalls |-> parsed.rows, total |-> parsed.total])

(***************************************************************************)
(* run_valgrind (massif).  A line is key=value: its key and the word after *)
(* the "=".                                                                *)
(***************************************************************************)
\* peak.update(...) when the snapshot's total is above the peak's
Consider(st) ==
    IF st.cur_heap + st.cur_extra > st.peak["massif_peak_total_bytes"]
    THEN [st EXCEPT !.peak = [massif_peak_heap_bytes |-> st.cur_heap,
                              massif_peak_heap_extra_bytes |-> st.cur_extra,
                              massif_peak_total_bytes |-> st.cur_heap + st.cur_extra,
                              massif_peak_stacks_bytes |-> st.cur_stacks,
                              massif_peak_time |-> st.cur_time,
                              massif_peak_snapshot |-> st.cur_snap]]
    ELSE st

ConsiderIfOpen(st) == IF st.cur_snap # None THEN Consider(st) ELSE st

\* cur = int(line.split("=", 1)[1])
MassifInt(st, name, tok) ==
    IF IntOf(tok).raised THEN Raise(st) ELSE Return([st EXCEPT ![name] = IntOf(tok).val])

\* cur_time: int(v), else float(v), else None
MassifTime(tok) == IF FloatOf(tok).raised THEN None ELSE FloatOf(tok).val

MassifLine(st, line) ==
    CASE line.key = "snapshot" ->
            LET closed == ConsiderIfOpen(st)
                opened == MassifInt(closed, "cur_snap", line.value)
            IN  IF opened.raised THEN opened
                ELSE Return([opened.val EXCEPT !.cur_heap = 0, !.cur_extra = 0,
                                               !.cur_stacks = 0, !.cur_time = None])
      [] line.key = "time" -> Return([st EXCEPT !.cur_time = MassifTime(line.value)])
      [] line.key = "mem_heap_B" -> MassifInt(st, "cur_heap", line.value)
      [] line.key = "mem_heap_extra_B" -> MassifInt(st, "cur_extra", line.value)
      [] line.key = "mem_stacks_B" -> MassifInt(st, "cur_stacks", line.value)
      [] OTHER -> Return(st)

RECURSIVE MassifLoop(_, _, _)
MassifLoop(st, lines, i) ==
    IF i > Len(lines) THEN Return(st)
    ELSE LET step == MassifLine(st, lines[i])
         IN  IF step.raised THEN step ELSE MassifLoop(step.val, lines, i + 1)

\* run_valgrind without the comparison of the snapshot in progress at the end
\* of the input
RunValgrindUnfinished(lines) ==
    LET loop == MassifLoop([peak |-> MassifNothing, cur_heap |-> 0, cur_extra |-> 0,
                            cur_stacks |-> 0, cur_time |-> None, cur_snap |-> None],
                           lines, 1)
    IN  IF loop.raised THEN Raise(loop.val.peak) ELSE Return(loop.val.peak)

\* run_valgrind on a massif output of these lines
RunValgrind(lines) ==
    LET loop == MassifLoop([peak |-> MassifNothing, cur_heap |-> 0, cur_extra |-> 0,
                            cur_stacks |-> 0, cur_time |-> None, cur_snap |-> None],
                           lines, 1)
    IN  IF loop.raised THEN Raise(loop.val.peak) ELSE Return(ConsiderIfOpen(loop.val).peak)

(***************************************************************************)
(* run_valgrind_memcheck.  A line is its label and the first word after    *)
(* the colon ("empty" when nothing follows).                               *)
(***************************************************************************)
MemcheckFields ==
    [definitely_lost_bytes |-> "definitely lost", indirectly_lost_bytes |-> "indirectly lost",
     possibly_lost_bytes |-> "possibly lost", still_reachable_bytes |-> "still reachable",
     suppressed_bytes |-> "suppressed"]

MemcheckLine(res, line) ==
    IF line.label = "ERROR SUMMARY"
    THEN PutIf(~IntOf(line.value).raised, res, "errors", IntOf(line.value).val)
    ELSE IF \E f \in DOMAIN MemcheckFields : MemcheckFields[f] = line.label
    THEN LET f == CHOOSE g \in DOMAIN MemcheckFields : MemcheckFields[g] = line.label
         IN  PutIf(~IntOf(WithoutCommas(line.value)).raised, res, f,
                   IntOf(WithoutCommas(line.value)).val)
    ELSE res

RECURSIVE MemcheckLoop(_, _, _)
MemcheckLoop(res, lines, i) ==
    IF i > Len(lines) THEN res ELSE MemcheckLoop(MemcheckLine(res, lines[i]), lines, i + 1)

\* run_valgrind_memcheck on a stderr of these lines
RunValgrindMemcheck(lines) == Return(MemcheckLoop(EmptyMap, lines, 1))

(***************************************************************************)
(* Tool outputs: the output of a well-behaved run of each tool, with up to *)
(* MaxDamaged of its lines replaced by other lines the tool, a crash or a  *)
(* different version of the tool could have written.                       *)
(***************************************************************************)
\* The number of lines of an output that differ from the reference output.
MaxDamaged == 1

Tools == {"perf", "time_v", "strace", "massif", "memcheck"}

\* The forms of a number and of what stands where a number should.
NumberForms == {"int", "grouped", "float", "grouped_float"}
ValueForms == NumberForms \cup {"word", "not"}

\* A word of form `form` written at line i; the numbers of replaced lines
\* differ from line to line and from the reference outputs.
Written(form, i) ==
    IF form \in NumberForms THEN Tok(form, 40 + i)
    ELSE IF form = "word" THEN Word("abc")
    ELSE Tok(form, None)

PerfReference ==
    << [value |-> Word("Performance"), text |-> PerfBanner],
       [value |-> Tok("grouped_float", 1500), text |-> PerfLabels["task_clock_ms"]],
       [value |-> Tok("grouped", 8), text |-> PerfLabels["cycles"]],
       [value |-> Tok("grouped", 16), text |-> PerfLabels["instructions"]],
       [value |-> Tok("float", 2000), text |-> PerfLabels["elapsed_s"]] >>

PerfVariants(i) ==
    {[value |-> Written(form, i), text |-> PerfLabels[f]] :
        f \in TimingTriple \cup {"task_clock_ms", "cycles"}, form \in ValueForms}
    \cup {[value |-> Written(form, i), text |-> PerfLabels[f]] :
            f \in PerfKeys, form \in {"int", "grouped"}}
    \cup {[value |-> Written("int", i), text |-> ""]}

\* "(h:mm:ss or m:ss)" after the first colon of the elapsed line
ElapsedLegend == <<Word("mm"), Word("ss or m"), Word("ss)")>>

TimeVReference ==
    << [head |-> "Command being timed", chunks |-> <<Word("./a.out")>>],
       [head |-> TimeVUser, chunks |-> <<Tok("float", 500)>>],
       [head |-> TimeVSystem, chunks |-> <<Tok("float", 300)>>],
       [head |-> TimeVElapsed, chunks |-> ElapsedLegend \o <<Tok("int", 0), Tok("float", 2000)>>] >>

TimeVVariants(i) ==
    {[head |-> h, chunks |-> c] :
        h \in {TimeVUser, TimeVSystem},
        c \in {<<>>, <<Written("float", i)>>, <<Written("grouped_float", i)>>,
               <<Written("word", i)>>, <<Tok("int", 0), Written("float", i)>>}}
    \cup {[head |-> TimeVElapsed, chunks |-> ElapsedLegend \o c] :
            c \in {<<Tok("int", 0), Written("float", i)>>, <<Tok("int", 1), Written("float", i)>>,
                   <<Tok("int", 1), Tok("int", 2), Written("float", i)>>,
                   <<Written("float", i)>>, <<Written("word", i)>>, <<Tok("empty", None)>>}}
    \cup {[head |-> "Elapsed (wall clock) time", chunks |-> <<>>]}

StraceHeader ==
    <<Word("%"), Word("time"), Word("seconds"), Word("usecs/call"),
      Word("calls"), Word("errors"), Word("syscall")>>

StraceDashes == [i \in 1..6 |-> Tok("dashes", None)]

\* A row without and with the errors column.
StraceLineOf(pct, seconds, usecs, calls, name) ==
    <<Tok("float", pct), Tok("float", seconds), Tok("int", usecs), Tok("int", calls),
      Word(name)>>

StraceLineWithErrors(pct, seconds, usecs, calls, errors, name) ==
    <<Tok("float", pct), Tok("float", seconds), Tok("int", usecs), Tok("int", calls),
      Tok("int", errors), Word(name)>>

StraceReference ==
    << StraceHeader, StraceDashes,
       StraceLineOf(58, 14, 14000, 1, "execve"),
       StraceLineWithErrors(25, 6, 2000, 3, 1, "futex"),
       StraceLineOf(17, 4, 20, 200, "write"),
       StraceDashes,
       StraceLineWithErrors(100, 24, 117, 204, 1, "total") >>

StraceVariants(i) ==
    {StraceLineOf(0, s, 40 + i, c, n) :
        s \in {0, 6, 40 + i}, c \in {3, 40 + i}, n \in {"read", "write", "restart_syscall"}}
    \cup {<<Word("futex"), Word("futex"), Word("futex"),
            Word("futex"), Word("read")>>,
          <<Tok("float", 0), Tok("grouped_float", 40 + i), Tok("int", 1), Tok("grouped", 40 + i),
            Word("read")>>,
          <<Tok("float", 0), Tok("float", 40 + i), Tok("int", 1), Tok("int", 40 + i)>>,
          <<Tok("float", 0), Tok("float", 40 + i), Tok("int", 1), Tok("int", 40 + i),
            Tok("int", 0)>>,
          StraceLineOf(0, 40 + i, 1, 40 + i, "total"),
          StraceDashes,
          <<Word("futex")>>}

MassifLineOf(key, form, val) == [key |-> key, value |-> Tok(form, val)]

MassifReference ==
    << [key |-> "desc", value |-> Word("--time-unit")],
       MassifLineOf("snapshot", "int", 0), MassifLineOf("time", "int", 0),
       MassifLineOf("mem_heap_B", "int", 0), MassifLineOf("mem_heap_extra_B", "int", 0),
       MassifLineOf("mem_stacks_B", "int", 0),
       MassifLineOf("snapshot", "int", 1), MassifLineOf("time", "int", 1200),
       MassifLineOf("mem_heap_B", "int", 4096), MassifLineOf("mem_heap_extra_B", "int", 64),
       MassifLineOf("mem_stacks_B", "int", 0),
       MassifLineOf("snapshot", "int", 2), MassifLineOf("time", "int", 2400),
       MassifLineOf("mem_heap_B", "int", 1024), MassifLineOf("mem_heap_extra_B", "int", 16),
       MassifLineOf("mem_stacks_B", "int", 0) >>

\* The output for a target that never allocates: no snapshot holds a byte.
MassifQuiet ==
    << [key |-> "desc", value |-> Word("--time-unit")],
       MassifLineOf("snapshot", "int", 0), MassifLineOf("time", "int", 0),
       MassifLineOf("mem_heap_B", "int", 0), MassifLineOf("mem_heap_extra_B", "int", 0),
       MassifLineOf("mem_stacks_B", "int", 0),
       MassifLineOf("snapshot", "int", 1), MassifLineOf("time", "int", 1200),
       MassifLineOf("mem_heap_B", "int", 0), MassifLineOf("mem_heap_extra_B", "int", 0),
       MassifLineOf("mem_stacks_B", "int", 0),
       MassifLineOf("snapshot", "int", 2), MassifLineOf("time", "int", 2400),
       MassifLineOf("mem_heap_B", "int", 0), MassifLineOf("mem_heap_extra_B", "int", 0),
       MassifLineOf("mem_stacks_B", "int", 0) >>

MassifVariants(i) ==
    {[key |-> k, value |-> v] :
        k \in {"snapshot", "time", "mem_heap_B", "mem_heap_extra_B", "mem_stacks_B", "desc"},
        v \in {Written("int", i), Tok("int", 8192), Written("float", i), Written("grouped", i),
               Written("word", i), Tok("empty", None)}}

MemcheckLineOf(label, form, val) == [label |-> label, value |-> Tok(form, val)]

MemcheckReference ==
    << MemcheckLineOf("HEAP SUMMARY", "empty", None),
       MemcheckLineOf("definitely lost", "int", 0),
       MemcheckLineOf("indirectly lost", "int", 0),
       MemcheckLineOf("possibly lost", "int", 0),
       MemcheckLineOf("still reachable", "grouped", 1024),
       MemcheckLineOf("suppressed", "int", 0),
       MemcheckLineOf("ERROR SUMMARY", "int", 0) >>

MemcheckVariants(i) ==
    {[label |-> l, value |-> v] :
        l \in {MemcheckFields[f] : f \in DOMAIN MemcheckFields} \cup {"ERROR SUMMARY", "HEAP SUMMARY"},
        v \in {Written("int", i), Written("grouped", i), Written("word", i), Tok("empty", None)}}

Reference(tool) ==
    CASE tool = "perf" -> PerfReference
      [] tool = "time_v" -> TimeVReference
      [] tool = "strace" -> StraceReference
      [] tool = "massif" -> MassifReference
      [] OTHER -> MemcheckReference

Variants(tool, i) ==
    CASE tool = "perf" -> PerfVariants(i)
      [] tool = "time_v" -> TimeVVariants(i)
      [] tool = "strace" -> StraceVariants(i)
      [] tool = "massif" -> MassifVariants(i)
      [] OTHER -> MemcheckVariants(i)

\* The reference outputs of a tool, of one length.
References(tool) ==
    IF tool = "massif" THEN {MassifReference, MassifQuiet} ELSE {Reference(tool)}

\* The outputs within k replaced lines of a reference output of the tool.
RECURSIVE Damaged(_, _)
Damaged(tool, k) ==
    IF k = 0 THEN References(tool)
    ELSE LET near == Damaged(tool, k - 1)
         IN  near \cup UNION { {[lines EXCEPT ![i] = v] : lines \in near, v \in Variants(tool, i)} :
                                  i \in DOMAIN Reference(tool) }

(***************************************************************************)
(* A parser run on a tool output.                                          *)
(***************************************************************************)
RunParser(tool, lines) ==
    CASE tool = "perf" -> RunPerfStat(lines)
      [] tool = "time_v" -> RunTimeVTiming(lines)
      [] tool = "strace" -> RunStraceSummary(lines)
      [] tool = "massif" -> RunValgrind(lines)
      [] OTHER -> RunValgrindMemcheck(lines)

\* The tool outputs within MaxDamaged replaced lines of a reference output,
\* the last replacement drawn line by line.
InitParse ==
    /\ \E tool \in Tools : \E lines \in Damaged(tool, Max(MaxDamaged, 1) - 1) :
          \E i \in DOMAIN lines :
             \E v \in (IF MaxDamaged = 0 THEN {} ELSE Variants(tool, i)) \cup {lines[i]} :
                input = [tool |-> tool, lines |-> [lines EXCEPT ![i] = v]]
    /\ data = EmptyMap
    /\ cls = NoCls
    /\ pc = "output"
    /\ prev = NoPrev
    /\ out = NoOut

\* The call of a parser in main(): its result, or its exception, which no
\* caller handles.
Parse ==
    /\ pc = "output"
    /\ \E r \in {RunParser(input.tool, input.lines)} :
          /\ data' = IF r.raised THEN EmptyMap ELSE r.val
          /\ pc' = IF r.raised THEN "raised" ELSE "parsed"
    /\ UNCHANGED <<input, cls, prev, out>>

NextParse == Parse

SpecParse == InitParse /\ [][NextParse]_vars


\* float(s) and int(s) succeed on the word.
IsFloat(tok) == ~FloatOf(tok).raised
IsInt(tok) == ~IntOf(tok).raised

\* The line carries a recognized label, key or row layout and, where its
\* number should stand, something that is none.
Offending(tool, line) ==
    CASE tool = "perf" ->
            line.text # "" /\ PerfBranchOf(PerfHits[line.text]) # 0
                /\ line.value.form \notin NumberForms
      [] tool = "time_v" ->
            \/ /\ line.head \in {TimeVUser, TimeVSystem}
               /\ line.chunks # <<>>
               /\ ~(Len(line.chunks) = 1 /\ IsFloat(line.chunks[1]))
            \/ /\ line.head \in {TimeVElapsed, "Elapsed (wall clock) time"}
               /\ (line.chunks = <<>> \/ ~IsFloat(line.chunks[Len(line.chunks)]))
      [] tool = "strace" ->
            IsStraceRow(line)
                /\ ~(IsFloat(line[1]) /\ IsFloat(line[2]) /\ IsFloat(line[3]) /\ IsInt(line[4]))
      [] tool = "massif" ->
            line.key \in {"snapshot", "mem_heap_B", "mem_heap_extra_B", "mem_stacks_B"}
                /\ ~IsInt(line.value)
      [] OTHER ->
            \/ line.label = "ERROR SUMMARY" /\ ~IsInt(line.value)
            \/ (\E f \in DOMAIN MemcheckFields : MemcheckFields[f] = line.label)
                  /\ ~IsInt(WithoutCommas(line.value))

\* The output without its offending lines.
WithoutOffending(tool, lines) == SelectSeq(lines, LAMBDA line : ~Offending(tool, line))

\* C19: parsing failures are never fatal.  Whatever the text, each of the
\* five parsers returns a result and does not raise, and the result is the
\* one of the text without its offending lines and rows: such a line is
\* skipped and sets no field.
C19_ParsingNeverFatal ==
    /\ pc # "raised"
    /\ pc = "parsed" =>
          data = RunParser(input.tool, WithoutOffending(input.tool, input.lines)).val

\* The part of C19 that the parsers satisfy: the syscall summary and the leak
\* summary never raise, and a parser that returns has skipped every offending
\* line, except that the syscall summary keeps a row with unreadable numbers.
C19_GuardedParsers ==
    /\ pc = "raised" => input.tool \in {"perf", "time_v", "massif"}
    /\ (pc = "parsed" /\ input.tool # "strace") =>
          data = RunParser(input.tool, WithoutOffending(input.tool, input.lines)).val

\* A heap snapshot file with a value that is no integer after mem_heap_B=, and
\* the call of the parser raised.
C19_Witness ==
    /\ pc = "raised"
    /\ input.tool = "massif"
    /\ \E i \in DOMAIN input.lines :
          input.lines[i].key = "mem_heap_B" /\ input.lines[i].value.form = "word"

\* A verbose-timing output whose elapsed line ends after its label.
C19_WitnessTimeV ==
    /\ pc = "raised"
    /\ input.tool = "time_v"
    /\ \E i \in DOMAIN input.lines : input.lines[i].chunks = <<>>

\* A counter summary whose elapsed seconds are written with a thousands separator.
C19_WitnessPerf ==
    /\ pc = "raised"
    /\ input.tool = "perf"
    /\ \E i \in DOMAIN input.lines :
          /\ input.lines[i].text = PerfLabels["elapsed_s"]
          /\ input.lines[i].value.form = "grouped_float"

\* A syscall row of words is kept as a row of zeros.
C19_WitnessZeroRow ==
    /\ pc = "parsed"
    /\ input.tool = "strace"
    /\ "syscalls" \in DOMAIN data
    /\ \E i \in DOMAIN data.syscalls :
          /\ data.syscalls[i].syscall = "read"
          /\ data.syscalls[i].seconds = 0
          /\ data.syscalls[i].calls = 0
    /\ \E i \in DOMAIN input.lines : Offending("strace", input.lines[i])


\* The field a line is a report of: the one whose label it carries.
OwnField(text) ==
    IF \E f \in PerfKeys : PerfLabels[f] = text
    THEN CHOOSE f \in PerfKeys : PerfLabels[f] = text
    ELSE "none"

\* The metrics when every line with a number is recorded under its own field.
RECURSIVE RecordedUnderOwn(_, _, _)
RecordedUnderOwn(metrics, lines, i) ==
    IF i > Len(lines) THEN metrics
    ELSE LET line == lines[i]
             number == IF OwnField(line.text) \in TimingTriple \cup {"task_clock_ms"}
                       THEN FloatOf(WithoutCommas(line.value))
                       ELSE PerfValue(line.value)
         IN  IF line.text = "" \/ OwnField(line.text) = "none" \/ number.raised
                \/ PerfValueStr(line.value).form = "empty"
             THEN RecordedUnderOwn(metrics, lines, i + 1)
             ELSE RecordedUnderOwn(Put(metrics, OwnField(line.text), number.val), lines, i + 1)

\* C20: counter-summary lines are classified most specific label first.  A
\* line that carries a label of the parser's table is recorded under that
\* label's own field and under no other: a label that contains another as a
\* substring is never recorded under the shorter label's field and never
\* overwrites it.
C20_LabelSpecificity ==
    (pc = "parsed" /\ input.tool = "perf") =>
        data = RecordedUnderOwn(EmptyMap, input.lines, 1)

HasStallLine(lines) ==
    \E i \in DOMAIN lines :
        OwnField(lines[i].text) \in {"stalled_cycles_frontend", "stalled_cycles_backend"}

\* The part of C20 that the parser satisfies: every label but the two stall
\* labels.
C20_LabelsButStalls ==
    (pc = "parsed" /\ input.tool = "perf" /\ ~HasStallLine(input.lines)) =>
        data = RecordedUnderOwn(EmptyMap, input.lines, 1)

\* A summary with a cycles line of 8 followed by a stalled-cycles-frontend
\* line: the cycles field holds the stall count and no stall field is set.
C20_Witness ==
    /\ pc = "parsed"
    /\ input.tool = "perf"
    /\ input.lines[3].text = PerfLabels["cycles"]
    /\ input.lines[3].value.val = 8
    /\ input.lines[4].text = PerfLabels["stalled_cycles_frontend"]
    /\ data["cycles"] = input.lines[4].value.val
    /\ data["cycles"] # 8
    /\ "stalled_cycles_frontend" \notin DOMAIN data

\* Labels that contain a shorter label and are recorded under their own
\* field: ref-cycles, branch-misses and a load-misses counter.
C20_WitnessOrdered ==
    /\ pc = "parsed"
    /\ input.tool = "perf"
    /\ \E i \in DOMAIN input.lines :
          /\ input.lines[i].text = PerfLabels["branch_misses"]
          /\ "branches" \in PerfHits[input.lines[i].text]
          /\ data["branch_misses"] = input.lines[i].value.val
          /\ "branches" \notin DOMAIN data

(***************************************************************************)
(* C21.  The elapsed line of the verbose timing output.                    *)
(***************************************************************************)
\* The value of an elapsed line: what follows the legend "(h:mm:ss or m:ss):"
ElapsedValue(chunks) == SubSeq(chunks, Len(ElapsedLegend) + 1, Len(chunks))

HasLegend(line) ==
    /\ line.head = TimeVElapsed
    /\ Len(line.chunks) > Len(ElapsedLegend)
    /\ SubSeq(line.chunks, 1, Len(ElapsedLegend)) = ElapsedLegend

\* SS.ss, MM:SS.ss or HH:MM:SS.ss: whole hours and minutes, then seconds
WellFormedElapsed(v) ==
    /\ Len(v) \in 1..3
    /\ v[Len(v)].form = "float"
    /\ \A j \in 1..(Len(v) - 1) : v[j].form = "int"

\* hours*3600 + minutes*60 + seconds of a well-formed value, in ms
NormalizedElapsed(v) ==
    LET n == Len(v)
        minutes == IF n >= 2 THEN v[n - 1].val ELSE 0
        hours == IF n >= 3 THEN v[n - 2].val ELSE 0
    IN  (hours * 3600 + minutes * 60) * 1000 + v[n].val

\* The elapsed line that decides elapsed_s: no elapsed line follows it
DecidingElapsed(lines, i) ==
    /\ HasLegend(lines[i])
    /\ WellFormedElapsed(ElapsedValue(lines[i].chunks))
    /\ \A j \in (i + 1)..Len(lines) :
          lines[j].head \notin {TimeVElapsed, "Elapsed (wall clock) time"}

\* C21: verbose-timing elapsed normalization.  For an elapsed line whose
\* value is SS.ss, MM:SS.ss or HH:MM:SS.ss the parser sets elapsed_s to
\* hours*3600 + minutes*60 + seconds of that value, and the colons of the
\* legend "(h:mm:ss or m:ss)" do not alter the result.
C21_ElapsedNormalized ==
    (pc = "parsed" /\ input.tool = "time_v") =>
        \A i \in DOMAIN input.lines :
            DecidingElapsed(input.lines, i) =>
                Get(data, "elapsed_s") = NormalizedElapsed(ElapsedValue(input.lines[i].chunks))

\* What the parser does: elapsed_s is the seconds field of the value, the
\* text after the last colon of the line, whatever stands before it.
C21_SecondsFieldOnly ==
    (pc = "parsed" /\ input.tool = "time_v") =>
        \A i \in DOMAIN input.lines :
            DecidingElapsed(input.lines, i) =>
                LET v == ElapsedValue(input.lines[i].chunks)
                IN  Get(data, "elapsed_s") = v[Len(v)].val

\* An elapsed value of one minute and some seconds: elapsed_s is the seconds
\* alone, a minute short.
C21_Witness ==
    /\ pc = "parsed"
    /\ input.tool = "time_v"
    /\ DecidingElapsed(input.lines, 4)
    /\ Len(ElapsedValue(input.lines[4].chunks)) = 2
    /\ ElapsedValue(input.lines[4].chunks)[1].val = 1
    /\ Get(data, "elapsed_s") = ElapsedValue(input.lines[4].chunks)[2].val
    /\ Get(data, "elapsed_s") + 60000 = NormalizedElapsed(ElapsedValue(input.lines[4].chunks))

\* An elapsed value of hours, minutes and seconds: hours and minutes are lost.
C21_WitnessHours ==
    /\ pc = "parsed"
    /\ input.tool = "time_v"
    /\ DecidingElapsed(input.lines, 4)
    /\ Len(ElapsedValue(input.lines[4].chunks)) = 3
    /\ Get(data, "elapsed_s") = ElapsedValue(input.lines[4].chunks)[3].val
    /\ NormalizedElapsed(ElapsedValue(input.lines[4].chunks)) = 3720000 + Get(data, "elapsed_s")

\* The reference output "0:02.00": the legend's colons do not alter the
\* result and zero minutes give the seconds.
C21_WitnessLegend ==
    /\ pc = "parsed"
    /\ input.tool = "time_v"
    /\ input.lines = TimeVReference
    /\ data["elapsed_s"] = 2000
    /\ data["elapsed_s"] = NormalizedElapsed(ElapsedValue(input.lines[4].chunks))

(***************************************************************************)
(* C22.  The peak of a stream of heap snapshots.                           *)
(***************************************************************************)
Least(S) == CHOOSE x \in S : \A y \in S : x <= y
Greatest(S) == CHOOSE x \in S : \A y \in S : x >= y

\* The lines that open a snapshot
SnapshotStarts(lines) == {i \in DOMAIN lines : lines[i].key = "snapshot"}

\* The last line of the snapshot opened at line i
SnapshotEnd(lines, i) ==
    LET later == {j \in SnapshotStarts(lines) : j > i}
    IN  IF later = {} THEN Len(lines) ELSE Least(later) - 1

\* The value the snapshot opened at line i gives for a key: that of its last
\* line with the key, `missing` without one
SnapshotField(lines, i, key, missing) ==
    LET at == {j \in (i + 1)..SnapshotEnd(lines, i) : lines[j].key = key}
    IN  IF at = {} THEN missing ELSE MassifTime(lines[Greatest(at)].value)

SnapshotAt(lines, i) ==
    [massif_peak_heap_bytes |-> SnapshotField(lines, i, "mem_heap_B", 0),
     massif_peak_heap_extra_bytes |-> SnapshotField(lines, i, "mem_heap_extra_B", 0),
     massif_peak_total_bytes |-> SnapshotField(lines, i, "mem_heap_B", 0)
                                    + SnapshotField(lines, i, "mem_heap_extra_B", 0),
     massif_peak_stacks_bytes |-> SnapshotField(lines, i, "mem_stacks_B", 0),
     massif_peak_time |-> SnapshotField(lines, i, "time", None),
     massif_peak_snapshot |-> lines[i].value.val]

Snapshots(lines) == {SnapshotAt(lines, i) : i \in SnapshotStarts(lines)}

\* The maximum of heap + extra over the snapshots
MaxTotal(lines) == Greatest({s.massif_peak_total_bytes : s \in Snapshots(lines)})

\* C22: heap-snapshot peak tracking.  After a stream of snapshots,
\* massif_peak_total_bytes is the maximum of heap + extra over all snapshots
\* of the input, the last one included, and the reported heap, extra, stacks,
\* time and snapshot index are those of a snapshot that attains the maximum.
C22_PeakOfSnapshots ==
    (pc = "parsed" /\ input.tool = "massif" /\ SnapshotStarts(input.lines) # {}) =>
        /\ data["massif_peak_total_bytes"] = MaxTotal(input.lines)
        /\ data \in Snapshots(input.lines)

\* C22 as the parser satisfies it: the total is the maximum over all
\* snapshots; the other fields are those of a snapshot that attains it when
\* the maximum is above zero, and the initial ones (zero bytes, time and
\* index unknown) when no snapshot holds a byte.
C22_PeakOfPositiveTotals ==
    (pc = "parsed" /\ input.tool = "massif" /\ SnapshotStarts(input.lines) # {}) =>
        /\ data["massif_peak_total_bytes"] = MaxTotal(input.lines)
        /\ MaxTotal(input.lines) > 0 => data \in Snapshots(input.lines)
        /\ MaxTotal(input.lines) = 0 => data = MassifNothing

\* The last snapshot of the stream holds the peak: it is reported although
\* no snapshot line follows it.
C22_Witness ==
    /\ pc = "parsed"
    /\ input.tool = "massif"
    /\ Cardinality(SnapshotStarts(input.lines)) = 3
    /\ data = SnapshotAt(input.lines, Greatest(SnapshotStarts(input.lines)))
    /\ data["massif_peak_total_bytes"] = MaxTotal(input.lines)
    /\ \A s \in Snapshots(input.lines) :
          s # data => s.massif_peak_total_bytes < data["massif_peak_total_bytes"]

\* No snapshot holds a byte: the peak names no snapshot and no time although
\* every snapshot attains the maximum of zero.
C22_WitnessNoBytes ==
    /\ pc = "parsed"
    /\ input.tool = "massif"
    /\ Cardinality(SnapshotStarts(input.lines)) = 3
    /\ MaxTotal(input.lines) = 0
    /\ data["massif_peak_snapshot"] = None
    /\ data["massif_peak_time"] = None
    /\ data \notin Snapshots(input.lines)

(***************************************************************************)
(* C23.  The syscall summary as a table: header, rows, separators, total.  *)
(***************************************************************************)
\* Four readable numbers, an optional errors count and one name
WellFormedRow(parts) ==
    /\ Len(parts) \in {5, 6}
    /\ IsFloat(parts[1]) /\ IsFloat(parts[2]) /\ IsFloat(parts[3]) /\ IsInt(parts[4])
    /\ Len(parts) = 6 => IsInt(parts[5])
    /\ parts[Len(parts)].form = "word"

RowName(parts) == parts[Len(parts)].text

\* The entry a well-formed row stands for: its columns, errors 0 without
\* the errors column
EntryOf(parts) ==
    [syscall |-> RowName(parts),
     calls |-> parts[4].val,
     errors |-> IF Len(parts) = 6 THEN parts[5].val ELSE 0,
     seconds |-> parts[2].val,
     usecs_per_call |-> parts[3].val,
     pct_time |-> parts[1].val]

\* The lines after the header, none without a header
AfterHeader(lines) ==
    IF HeaderIdx(lines) = 0 THEN {} ELSE (HeaderIdx(lines) + 1)..Len(lines)

\* The well-formed data rows and total rows after the header
DataRows(lines) ==
    {i \in AfterHeader(lines) : WellFormedRow(lines[i]) /\ RowName(lines[i]) # "total"}

TotalRows(lines) ==
    {i \in AfterHeader(lines) : WellFormedRow(lines[i]) /\ RowName(lines[i]) = "total"}

\* How many entries of the list equal e
Entries(syscalls, e) == Cardinality({k \in DOMAIN syscalls : syscalls[k] = e})

\* C23: syscall-summary parsing.  Without a header row the result is the
\* raw text only.  Otherwise every well-formed data row after the header
\* gives exactly one entry of `syscalls` with the row's values, errors = 0
\* when the errors column is absent; rows of dashes give nothing; the
\* `total` row fills `total` and is no entry.  The result has either a
\* non-empty `syscalls` with `total`, or `raw`, never both.
C23_SyscallTable ==
    (pc = "parsed" /\ input.tool = "strace") =>
        /\ \/ DOMAIN data = {"raw"}
           \/ DOMAIN data = {"syscalls", "total"} /\ data["syscalls"] # <<>>
        /\ HeaderIdx(input.lines) = 0 => data = [raw |-> input.lines]
        /\ DataRows(input.lines) # {} =>
              /\ "syscalls" \in DOMAIN data
              /\ Len(data["syscalls"]) <=
                    Cardinality({i \in AfterHeader(input.lines) : IsStraceRow(input.lines[i])})
                    - Cardinality(TotalRows(input.lines))
              /\ \A i \in DataRows(input.lines) :
                    Entries(data["syscalls"], EntryOf(input.lines[i])) =
                        Cardinality({j \in DataRows(input.lines) :
                                        EntryOf(input.lines[j]) = EntryOf(input.lines[i])})
              /\ \A k \in DOMAIN data["syscalls"] : data["syscalls"][k].syscall # "total"
              /\ \A i \in TotalRows(input.lines) :
                    (\A j \in TotalRows(input.lines) : j <= i) =>
                        /\ DOMAIN data["total"] =
                              {"pct_time", "seconds", "usecs_per_call", "calls", "errors"}
                        /\ \A f \in {"seconds", "usecs_per_call", "calls", "errors"} :
                              data["total"][f] = EntryOf(input.lines[i])[f]
              /\ TotalRows(input.lines) = {} =>
                    \/ data["total"] = EmptyMap
                    \/ \E i \in AfterHeader(input.lines) :
                          IsStraceRow(input.lines[i]) /\ ~WellFormedRow(input.lines[i])

\* The reference table: three rows, one of them with the errors column, give
\* three entries, and the total row gives the aggregate.
C23_Witness ==
    /\ pc = "parsed"
    /\ input.tool = "strace"
    /\ input.lines = StraceReference
    /\ Len(data["syscalls"]) = 3
    /\ \E k \in 1..3 : data["syscalls"][k] = EntryOf(input.lines[4]) /\ data["syscalls"][k].errors = 1
    /\ \E k \in 1..3 : data["syscalls"][k] = EntryOf(input.lines[5]) /\ data["syscalls"][k].errors = 0
    /\ data["total"].calls = 204

\* No line mentions "syscall": the raw text alone.
C23_WitnessRaw ==
    /\ pc = "parsed"
    /\ input.tool = "strace"
    /\ HeaderIdx(input.lines) = 0
    /\ DataRows(input.lines) = {}
    /\ \E i \in DOMAIN input.lines : WellFormedRow(input.lines[i])
    /\ data = [raw |-> input.lines]

\* A row replaced by a row of dashes: one entry fewer, the others unchanged.
C23_WitnessDashes ==
    /\ pc = "parsed"
    /\ input.tool = "strace"
    /\ input.lines[4] = StraceDashes
    /\ Len(data["syscalls"]) = 2
    /\ Cardinality(DataRows(input.lines)) = 2

\* The header is missing and a row named restart_syscall stands first: the
\* parser takes that row for the header, as it mentions "syscall", and reads
\* the rows after it.
C23_WitnessNameAsHeader ==
    /\ pc = "parsed"
    /\ input.tool = "strace"
    /\ HeaderIdx(input.lines) = 1
    /\ WellFormedRow(input.lines[1])
    /\ RowName(input.lines[1]) = "restart_syscall"
    /\ Len(data["syscalls"]) = 3

(***************************************************************************)
(* C24.  The order of the syscall rows.                                    *)
(***************************************************************************)
\* r stands rightly before s: more seconds, or as many and no fewer calls
OrderedPair(r, s) ==
    \/ r.seconds > s.seconds
    \/ r.seconds = s.seconds /\ r.calls >= s.calls

\* C24: in every parsed syscall table the rows are ordered by seconds
\* descending and, among rows of equal seconds, by calls descending: each
\* adjacent pair is so ordered, whatever the order of the rows in the tool
\* output.
C24_RowsOrdered ==
    (pc = "parsed" /\ input.tool = "strace" /\ "syscalls" \in DOMAIN data) =>
        \A k \in 1..(Len(data["syscalls"]) - 1) :
            OrderedPair(data["syscalls"][k], data["syscalls"][k + 1])

\* The last row of the output has the most seconds: it comes first.
C24_Witness ==
    /\ pc = "parsed"
    /\ input.tool = "strace"
    /\ DataRows(input.lines) = {3, 4, 5}
    /\ EntryOf(input.lines[5]).seconds > EntryOf(input.lines[3]).seconds
    /\ Len(data["syscalls"]) = 3
    /\ data["syscalls"][1] = EntryOf(input.lines[5])
    /\ data["syscalls"][2] = EntryOf(input.lines[3])
    /\ data["syscalls"][3] = EntryOf(input.lines[4])

\* Two rows of equal seconds, the one with fewer calls first in the output:
\* the one with more calls comes first in the table.
C24_WitnessEqualSeconds ==
    /\ pc = "parsed"
    /\ input.tool = "strace"
    /\ DataRows(input.lines) = {3, 4, 5}
    /\ EntryOf(input.lines[4]).seconds = EntryOf(input.lines[5]).seconds
    /\ EntryOf(input.lines[4]).calls < EntryOf(input.lines[5]).calls
    /\ data["syscalls"][2] = EntryOf(input.lines[5])
    /\ data["syscalls"][3] = EntryOf(input.lines[4])

(***************************************************************************)
(* C25.  The names of the syscall rows.                                    *)
(***************************************************************************)
NamesUnique(syscalls) ==
    \A j, k \in DOMAIN syscalls : j # k => syscalls[j].syscall # syscalls[k].syscall

\* C25: no two entries of the `syscalls` list have the same syscall name,
\* for any syscall summary the parser accepts, also one in which a name
\* stands on more than one row.
C25_UniqueNames ==
    (pc = "parsed" /\ input.tool = "strace" /\ "syscalls" \in DOMAIN data) =>
        NamesUnique(data["syscalls"])

\* The rows after the header that the parser records, by name
RecordedNames(lines, name) ==
    {i \in AfterHeader(lines) : IsStraceRow(lines[i]) /\ StraceRow(lines[i]).syscall = name}

\* What the parser does: it adds one entry per row and merges none, so the
\* list has a name as often as the text has rows of that name.
C25_OneEntryPerRow ==
    (pc = "parsed" /\ input.tool = "strace" /\ "syscalls" \in DOMAIN data) =>
        \A k \in DOMAIN data["syscalls"] :
            Cardinality({j \in DOMAIN data["syscalls"] :
                            data["syscalls"][j].syscall = data["syscalls"][k].syscall})
                = Cardinality(RecordedNames(input.lines, data["syscalls"][k].syscall))

\* Two rows named write in the text: two entries named write in the list.
C25_Witness ==
    /\ pc = "parsed"
    /\ input.tool = "strace"
    /\ DataRows(input.lines) = {3, 4, 5}
    /\ RowName(input.lines[3]) = "write"
    /\ RowName(input.lines[5]) = "write"
    /\ Len(data["syscalls"]) = 3
    /\ Cardinality({k \in 1..3 : data["syscalls"][k].syscall = "write"}) = 2

(***************************************************************************)
(* The external runs of main().  Each tool is run on the target with       *)
(* subprocess.run, which returns when the child has terminated; the        *)
(* thread-count probe launches the target itself with Popen, sleeps,       *)
(* samples /proc/<pid>/task, sends SIGTERM and waits at most one second.   *)
(*   input: what the machine and the target are like                       *)
(*   data:  the targets launched so far, each "running" or "exited"        *)
(*   pc:    the run main() is at and the step within it                    *)
(*   prev:  the targets SIGTERM was sent to                                *)
(***************************************************************************)
\* The runs in the order of main(): run_perf_stat, run_time_v_timing,
\* count_threads, run_strace_summary, run_max_rss_kb, run_valgrind,
\* run_valgrind_memcheck
RunOrder == <<"perf", "time_v", "threads", "strace", "rss", "massif", "memcheck">>

\* What follows a run
At(tool, step) == [at |-> tool, step |-> step]

AfterRun(tool) ==
    IF tool = RunOrder[Len(RunOrder)] THEN At("done", "done")
    ELSE At(RunOrder[(CHOOSE i \in DOMAIN RunOrder : RunOrder[i] = tool) + 1], "call")

\* Whether main() launches the target for the run: the counter summary when
\* perf is usable, the timing fallback when a timing field is missing and
\* /usr/bin/time exists, the max-RSS run when /usr/bin/time exists
Launches(ctx, tool) ==
    CASE tool = "perf" -> ctx.perf_usable
      [] tool = "time_v" -> (~ctx.perf_usable \/ ~ctx.perf_timing) /\ ctx.time_exists
      [] tool = "rss" -> ctx.time_exists
      [] OTHER -> TRUE

Running == {r \in DOMAIN data : data[r] = "running"}

InitRuns ==
    /\ input \in [perf_usable : BOOLEAN, perf_timing : BOOLEAN, time_exists : BOOLEAN,
                  heeds_term : BOOLEAN]
    /\ data = EmptyMap
    /\ pc = At(RunOrder[1], "call")
    /\ prev = {}
    /\ cls = NoCls
    /\ out = NoOut

\* A run that main() does not make, or that returns before launching
SkipRun ==
    /\ pc.step = "call"
    /\ pc.at # "threads"
    /\ pc.at # "done"
    /\ ~Launches(input, pc.at)
    /\ pc' = AfterRun(pc.at)
    /\ UNCHANGED <<input, data, cls, prev, out>>

\* subprocess.run(cmd, ...): the tool starts the target
CallRun ==
    /\ pc.step = "call"
    /\ pc.at # "threads"
    /\ pc.at # "done"
    /\ Launches(input, pc.at)
    /\ data' = Put(data, pc.at, "running")
    /\ pc' = At(pc.at, "wait")
    /\ UNCHANGED <<input, cls, prev, out>>

\* A target terminates: at its end, or on a SIGTERM it heeds
TargetExits ==
    /\ \E r \in Running : data' = Put(data, r, "exited")
    /\ UNCHANGED <<input, cls, pc, prev, out>>

\* subprocess.run returns: the child has terminated
RunReturns ==
    /\ pc.step = "wait"
    /\ pc.at # "threads"
    /\ data[pc.at] = "exited"
    /\ pc' = AfterRun(pc.at)
    /\ UNCHANGED <<input, data, cls, prev, out>>

\* count_threads: proc = subprocess.Popen([binary, *args], ...)
ProbeLaunch ==
    /\ pc = At("threads", "call")
    /\ data' = Put(data, "threads", "running")
    /\ pc' = At("threads", "sleep")
    /\ UNCHANGED <<input, cls, prev, out>>

\* count_threads: Popen raises; except Exception: return 1
ProbeFails ==
    /\ pc = At("threads", "call")
    /\ pc' = AfterRun("threads")
    /\ UNCHANGED <<input, data, cls, prev, out>>

\* count_threads: time.sleep(0.01), then the sample of /proc/<pid>/task
ProbeSample ==
    /\ pc = At("threads", "sleep")
    /\ pc' = At("threads", "terminate")
    /\ UNCHANGED <<input, data, cls, prev, out>>

\* count_threads: proc.terminate()
ProbeTerminate ==
    /\ pc = At("threads", "terminate")
    /\ prev' = IF data["threads"] = "running" THEN prev \cup {"threads"} ELSE prev
    /\ pc' = At("threads", "wait")
    /\ UNCHANGED <<input, data, cls, out>>

\* count_threads: proc.wait(timeout=1) returns, the target has terminated
ProbeWaitReturns ==
    /\ pc = At("threads", "wait")
    /\ data["threads"] = "exited"
    /\ pc' = AfterRun("threads")
    /\ UNCHANGED <<input, data, cls, prev, out>>

\* count_threads: proc.wait(timeout=1) raises TimeoutExpired for a target
\* that does not exit on SIGTERM within the second; except Exception:
\* return 1, and the target is left as it is
ProbeWaitTimesOut ==
    /\ pc = At("threads", "wait")
    /\ data["threads"] = "running"
    /\ ~input.heeds_term
    /\ pc' = AfterRun("threads")
    /\ UNCHANGED <<input, data, cls, prev, out>>

NextRuns ==
    \/ SkipRun
    \/ CallRun
    \/ TargetExits
    \/ RunReturns
    \/ ProbeLaunch
    \/ ProbeFails
    \/ ProbeSample
    \/ ProbeTerminate
    \/ ProbeWaitReturns
    \/ ProbeWaitTimesOut

SpecRuns == InitRuns /\ [][NextRuns]_vars

\* C26: diagnostic runs never overlap.  The profiler starts each external
\* run only after the previously started target has terminated, so at no
\* time are two targets running; in particular the thread-count probe's
\* target has terminated before the syscall tracer run begins, also when it
\* does not exit within the probe's wait timeout.
C26_RunsNeverOverlap == Cardinality(Running) <= 1

\* What the code ensures: the runs made with subprocess.run never overlap
\* one another, and the probe's target is gone before the syscall tracer
\* starts whenever it exits on SIGTERM within the second.
C26_OverlapOnlyAfterProbeTimeout ==
    /\ Cardinality(Running \ {"threads"}) <= 1
    /\ Cardinality(Running) > 1 => ("threads" \in prev /\ ~input.heeds_term)

\* The probe's target was sent SIGTERM, did not exit within the second, and
\* is running while the target of the syscall tracer runs.
C26_Witness ==
    /\ Running = {"threads", "strace"}
    /\ "threads" \in prev
    /\ pc = At("strace", "wait")

\* A run of all seven tools in which each target had exited before the next
\* was started.
C26_WitnessSequential ==
    /\ pc = At("done", "done")
    /\ DOMAIN data = {RunOrder[i] : i \in DOMAIN RunOrder}
    /\ Running = {}
    /\ input.heeds_term

(***************************************************************************)
(* C27.  The timing fallback only fills.                                   *)
(***************************************************************************)
\* timing as main() has it before the fallback
TimingBeforeFallback(run) == WithUtilization(TimingFromPerf(PerfData(run)), run.cores)

\* The run with a verbose-timing output that gives nothing
WithoutTimeV(run) == [run EXCEPT !.tv = [k \in DOMAIN run.tv |-> None]]

\* C27: the timing fallback is fill-only.  The verbose-timing result is used
\* only when the counter summary did not give all of elapsed_s, user_s and
\* sys_s, and merging it changes no timing field the counter summary gave:
\* it only sets fields that were missing.
C27_FallbackFillOnly ==
    pc = "derived" =>
        LET before == TimingBeforeFallback(input)
            tv == TimeVResult(input.tv)
        IN  /\ \A k \in DOMAIN before : data["timing"][k] = before[k]
            /\ \A k \in DOMAIN data["timing"] \ DOMAIN before :
                  /\ NeedsFallback(before)
                  /\ k \in DOMAIN tv
                  /\ data["timing"][k] = tv[k]
            /\ TimingTriple \subseteq DOMAIN PerfData(input) =>
                  data["timing"] = TimingSection(WithoutTimeV(input), PerfData(input))

\* The counter summary gave some of the three times and the fallback gives
\* another value for one of them: the counter summary's value stays and a
\* missing field is set from the fallback.
C27_Witness ==
    /\ pc = "derived"
    /\ \E k \in TimingTriple \cap DOMAIN PerfData(input) :
          /\ k \in DOMAIN TimeVResult(input.tv)
          /\ TimeVResult(input.tv)[k] # PerfData(input)[k]
          /\ data["timing"][k] = PerfData(input)[k]
    /\ \E k \in TimingTriple \ DOMAIN PerfData(input) :
          /\ k \in DOMAIN TimeVResult(input.tv)
          /\ data["timing"][k] = TimeVResult(input.tv)[k]

\* The counter summary gave all three times: the fallback's values, which
\* differ, are not used.
C27_WitnessNoFallback ==
    /\ pc = "derived"
    /\ TimingTriple \subseteq DOMAIN PerfData(input)
    /\ TimingTriple \subseteq DOMAIN TimeVResult(input.tv)
    /\ \E k \in TimingTriple : TimeVResult(input.tv)[k] # PerfData(input)[k]
    /\ \A k \in TimingTriple : data["timing"][k] = PerfData(input)[k]

(***************************************************************************)
(* C30.  The timing section of the document agrees with itself.            *)
(***************************************************************************)
\* wait_time_s is the floored difference of the document's own three times
WaitOfOwnTimes(t) ==
    /\ t["elapsed_s"] # None /\ t["user_s"] # None /\ t["sys_s"] # None
    /\ t["wait_time_s"] = Max(0, t["elapsed_s"] - (t["user_s"] + t["sys_s"]))

\* C30: the timing section of the produced document is self-consistent.
\* Whenever wait_time_s is known, elapsed_s, user_s and sys_s are known and
\* wait_time_s = max(0, elapsed_s - (user_s + sys_s)) of the values in the
\* same document, also when some of them come from the counter summary and
\* the others from the verbose-timing fallback.
C30_TimingSelfConsistent ==
    pc = "profiled" =>
        (data["timing"]["wait_time_s"] # None => WaitOfOwnTimes(data["timing"]))

\* The three times come from one run: the counter summary gave all of them
\* or none.
OneTimingSource(run) ==
    \/ TimingTriple \subseteq DOMAIN PerfData(run)
    \/ TimingTriple \cap DOMAIN PerfData(run) = {}

\* What the code ensures: a known wait_time_s comes with three known times,
\* and is their floored difference when they come from one run.
C30_ConsistentFromOneSource ==
    pc = "profiled" =>
        (data["timing"]["wait_time_s"] # None =>
            /\ \A k \in TimingTriple : data["timing"][k] # None
            /\ OneTimingSource(input) => WaitOfOwnTimes(data["timing"]))

\* elapsed_s 0.5 from the counter summary, user_s 0.5, sys_s 0.3 and
\* wait_time_s 1.2 from the fallback run, which took 2.0 s: the document's
\* wait time exceeds its elapsed time.
C30_Witness ==
    /\ pc = "profiled"
    /\ input = MixedRun
    /\ data["timing"]["elapsed_s"] = 500
    /\ data["timing"]["user_s"] = 500
    /\ data["timing"]["sys_s"] = 300
    /\ data["timing"]["wait_time_s"] = 1200
    /\ ~WaitOfOwnTimes(data["timing"])

\* All times from the fallback: consistent.
C30_WitnessFallback ==
    /\ pc = "profiled"
    /\ ~input.perf_usable
    /\ data["timing"]["wait_time_s"] = 1200
    /\ WaitOfOwnTimes(data["timing"])

(***************************************************************************)
(* Documents whose syscall table holds rows in any order: the rows of a    *)
(* pool, each at most once, up to MaxTopRows of them.                      *)
(***************************************************************************)
\* The longest syscall table of these documents.
MaxTopRows == 4

\* Rows with distinct and with equal seconds, in no order; one row whose
\* seconds is unknown and one without the key.
TopPool ==
    { [syscall |-> "write", calls |-> 200, errors |-> 0, seconds |-> 4, pct_time |-> 13],
      [syscall |-> "execve", calls |-> 1, errors |-> 0, seconds |-> 14, pct_time |-> 47],
      [syscall |-> "futex", calls |-> 3, errors |-> 0, seconds |-> 6, pct_time |-> 20],
      [syscall |-> "read", calls |-> 5, errors |-> 0, seconds |-> 6, pct_time |-> 20],
      [syscall |-> "poll", calls |-> 2, errors |-> 0, seconds |-> None, pct_time |-> None],
      [syscall |-> "brk", calls |-> 1, errors |-> 0, pct_time |-> 0] }

\* The sequences of up to n distinct rows of the pool
RECURSIVE TopTables(_)
TopTables(n) ==
    IF n = 0 THEN {<<>>}
    ELSE LET shorter == TopTables(n - 1)
         IN  shorter \cup UNION { {Append(rows, r) :
                                      r \in TopPool \ {rows[i] : i \in DOMAIN rows}} :
                                  rows \in {s \in shorter : Len(s) = n - 1} }

TopDocuments ==
    { [d EXCEPT !["syscalls"] = [syscalls |-> rows, total |-> [seconds |-> 24]]] :
        d \in {Waiting, ComputeBound, MemoryBound, ShortLived}, rows \in TopTables(MaxTopRows) }

InitTop ==
    /\ input \in TopDocuments
    /\ data = input
    /\ cls = NoCls
    /\ pc = "read"
    /\ prev = NoPrev
    /\ out = NoOut

SpecTop == InitTop /\ [][Next]_vars

(***************************************************************************)
(* C28.  The top syscalls by time among the reasons.                       *)
(***************************************************************************)
\* The entries of reasons that list top syscalls
TopLists(reasons) ==
    {i \in DOMAIN reasons : "top_syscalls_by_time" \in DOMAIN reasons[i]}

\* The seconds a row counts with: 0 without the key
SecondsOf(r) == GetOr(r, "seconds", 0)

\* `top` lists min(3, number of rows) of the rows, largest seconds first: it
\* is made of distinct rows of the table, in non-increasing order of
\* seconds, and no row left out has more seconds than the last one listed
ListsLargest(top, rows) ==
    /\ Len(top) = Min(3, Len(rows))
    /\ \E at \in [DOMAIN top -> DOMAIN rows] :
          /\ \A i, j \in DOMAIN top : i # j => at[i] # at[j]
          /\ \A i \in DOMAIN top : top[i] = TopEntry(rows[at[i]])
          /\ \A i \in DOMAIN top : \A j \in DOMAIN top :
                i < j => SecondsOf(rows[at[i]]) >= SecondsOf(rows[at[j]])
          /\ \A k \in DOMAIN rows :
                (\A i \in DOMAIN top : at[i] # k) =>
                    SecondsOf(rows[k]) <= SecondsOf(rows[at[Len(top)]])

SecondsKnown(rows) == \A i \in DOMAIN rows : SecondsOf(rows[i]) # None

C28_WitnessUnknownSeconds ==
    /\ pc = "classified"
    /\ cls.primary_bottleneck = "I/O/Wait"
    /\ Len(data["syscalls"]["syscalls"]) = 2
    /\ ~SecondsKnown(data["syscalls"]["syscalls"])
    /\ TopLists(cls.reasons) = {}

\* Another verdict with rows: no entry.
C28_WitnessOtherVerdict ==
    /\ pc = "classified"
    /\ cls.primary_bottleneck = "No bottleneck"
    /\ Len(data["syscalls"]["syscalls"]) = 4
    /\ TopLists(cls.reasons) = {}

(***************************************************************************)
(* C29: when elapsed_s is unknown or zero the verdict is CPU or Memory:    *)
(* neither the short-lived rule nor the I/O rule fires, whatever the wait  *)
(* time and the syscall totals are, and the output-redirection caveat is   *)
(* not among the suggestions.                                              *)
(***************************************************************************)
NoElapsed == ElapsedMs = None \/ ElapsedMs = 0

C29_NoElapsedNoIo ==
    (Classified /\ NoElapsed) =>
        /\ Verdict \in {"CPU", "Memory"}
        /\ \A i \in DOMAIN cls.reasons :
              DOMAIN cls.reasons[i] \cap {"note", "io_wait_frac"} = {}
        /\ ~CaveatSaid

\* Elapsed time zero next to a positive wait time and positive syscall seconds.
C29_Witness ==
    /\ Classified /\ ElapsedMs = 0 /\ Verdict = "CPU"
    /\ WaitMs # None /\ WaitMs > 0
    /\ TotalSyscallMs # None /\ TotalSyscallMs > 0

\* Elapsed time unknown, wait time positive, and the memory rule fires.
C29_WitnessMemory ==
    /\ Classified /\ ElapsedMs = None /\ Verdict = "Memory"
    /\ WaitMs # None /\ WaitMs > 0

\* No elapsed time and more than 100 write invocations under a CPU verdict.
C29_WitnessWrites ==
    /\ Classified /\ NoElapsed /\ Verdict = "CPU"
    /\ WriteRowsKnown /\ WriteCalls > 100

\* No elapsed time and syscall time dominated by the startup set.
C29_WitnessStartup ==
    Classified /\ NoElapsed /\ StartupDominated

====
